---- MODULE Spec2Model ----
(***************************************************************************)
(* Model of the pattern permutation and execution engine of                *)
(* git_lfs_scripts: internal/lfsfiles (ExpandPattern, Execute,             *)
(* executeCommand, GetCommandString) and the entry points that call it     *)
(* (git-ls-files, git-lfs-files, git-lfs-track).                           *)
(*                                                                         *)
(* Go strings are modelled as sequences of one-character strings, so that  *)
(* case folding, strings.Fields and strings.Join are computed character by *)
(* character.  A []string is a sequence of such sequences.                 *)
(***************************************************************************)
EXTENDS Integers, Sequences, FiniteSets

VARIABLES
    caller,       \* which code called into the package (an entry point, or the API directly)
    opts,         \* lfsfiles.Options
    patterns,     \* the token list (pflag.Args())
    pc,           \* position of the single thread of control
    i,            \* index of the next element of `patterns` in Execute's range loop
    pattern,      \* the range variable `pattern` (ExpandPattern's argument)
    expanded,     \* Execute's local `expanded` (the last ExpandPattern result)
    stdout,       \* lines written to standard output, in order
    stderr,       \* lines written to standard error, in order
    invocations,  \* external commands started through exec.Command/cmd.Run, in order
    err,          \* the error value Execute returned
    exitCode,     \* process exit status, NoExit while running
    previous,     \* what an earlier dry run with the same arguments printed, if there was one
    cmdTypeArg,   \* the CommandType handed to GetCommandString when it is called on its own
    showHelp,     \* the -h flag of the entry point
    stdin,        \* git-lfs-trace: the lines of standard input
    scanned,      \* git-lfs-trace: how many lines scanner.Scan has delivered
    runPc,        \* git-giftless: where the goroutine running cmd.Run() is
    cmdProcess,   \* git-giftless: whether cmd.Process is set (not nil)
    sigChan,      \* git-giftless: the signals buffered in sigChan
    errChan,      \* git-giftless: the errors buffered in errChan
    arrived,      \* git-giftless: the signals delivered to the wrapper, in order
    forwarded,    \* git-giftless: the signals the wrapper sent to the child, in order
    version,      \* release: main's version string
    versionFile,  \* release: the content of the file VERSION
    githubToken   \* release: the environment variable GITHUB_TOKEN

vars == <<caller, opts, patterns, pc, i, pattern, expanded, stdout, stderr, invocations, err,
          exitCode, previous, cmdTypeArg, showHelp, stdin, scanned,
          runPc, cmdProcess, sigChan, errChan, arrived, forwarded, version, versionFile,
          githubToken>>

\* the variables the pattern entry points and lfsfiles.Execute never change
giftlessVars == <<runPc, cmdProcess, sigChan, errChan, arrived, forwarded>>
releaseVars == <<version, versionFile, githubToken>>
toolVars == <<cmdTypeArg, showHelp, stdin, scanned, giftlessVars, releaseVars>>

----------------------------------------------------------------------------
(* Bounds of the model *)

\* longest token drawn for the pure-function specification
MaxTokenLen == 3
\* longest token list handed to Execute
MaxTokens == 2
\* longest standard input handed to git-lfs-trace, in lines
MaxLines == 2

----------------------------------------------------------------------------
(* Characters and strings *)

LowerLetters == <<"a","b","c","d","e","f","g","h","i","j","k","l","m",
                  "n","o","p","q","r","s","t","u","v","w","x","y","z">>
UpperLetters == <<"A","B","C","D","E","F","G","H","I","J","K","L","M",
                  "N","O","P","Q","R","S","T","U","V","W","X","Y","Z">>

\* unicode.ToLower / unicode.ToUpper on the ASCII range
ToLowerChar(c) ==
    IF \E k \in DOMAIN UpperLetters : UpperLetters[k] = c
    THEN LowerLetters[CHOOSE k \in DOMAIN UpperLetters : UpperLetters[k] = c]
    ELSE c

ToUpperChar(c) ==
    IF \E k \in DOMAIN LowerLetters : LowerLetters[k] = c
    THEN UpperLetters[CHOOSE k \in DOMAIN LowerLetters : LowerLetters[k] = c]
    ELSE c

\* strings.ToLower / strings.ToUpper: every character of the string is folded
ToLower(s) == [k \in 1..Len(s) |-> ToLowerChar(s[k])]
ToUpper(s) == [k \in 1..Len(s) |-> ToUpperChar(s[k])]

\* characters strings.Fields splits on (the ASCII white space that labels can hold)
WhiteSpace == {" "}

RECURSIVE FieldsFrom(_, _, _)
FieldsFrom(s, cur, acc) ==
    IF s = <<>>
    THEN IF cur = <<>> THEN acc ELSE Append(acc, cur)
    ELSE IF Head(s) \in WhiteSpace
         THEN FieldsFrom(Tail(s), <<>>, IF cur = <<>> THEN acc ELSE Append(acc, cur))
         ELSE FieldsFrom(Tail(s), Append(cur, Head(s)), acc)

\* strings.Fields
Fields(s) == FieldsFrom(s, <<>>, <<>>)

RECURSIVE Join(_, _)
\* strings.Join
Join(elems, sep) ==
    IF elems = <<>> THEN <<>>
    ELSE IF Len(elems) = 1 THEN elems[1]
    ELSE elems[1] \o sep \o Join(Tail(elems), sep)

----------------------------------------------------------------------------
(* internal/lfsfiles *)

LsFiles == 0
LfsLsFiles == 1
LfsTrack == 2
LfsUntrack == 3

CommandType == {LsFiles, LfsLsFiles, LfsTrack, LfsUntrack}

GitLsFilesLabel == <<"g","i","t"," ","l","s","-","f","i","l","e","s">>
GitLfsLsFilesLabel == <<"g","i","t"," ","l","f","s"," ","l","s","-","f","i","l","e","s">>
GitLfsTrackLabel == <<"g","i","t"," ","l","f","s"," ","t","r","a","c","k">>
GitLfsUntrackLabel == <<"g","i","t"," ","l","f","s"," ","u","n","t","r","a","c","k">>

\* GetCommandString falling back to the first label
GetCommandString_DefaultFirst(cmdType) ==
    CASE cmdType = LfsLsFiles -> GitLfsLsFilesLabel
      [] cmdType = LfsTrack -> GitLfsTrackLabel
      [] cmdType = LfsUntrack -> GitLfsUntrackLabel
      [] OTHER -> GitLsFilesLabel

GetCommandString(cmdType) ==
    CASE cmdType = LsFiles -> GitLsFilesLabel
      [] cmdType = LfsLsFiles -> GitLfsLsFilesLabel
      [] cmdType = LfsTrack -> GitLfsTrackLabel
      [] cmdType = LfsUntrack -> GitLfsUntrackLabel
      [] OTHER -> <<>>

LocalPrefix == <<"*", ".">>
RecursivePrefix == <<"*", "*", "/", "*", ".">>

\* ExpandPattern appending to the slice of the call before instead of a
\* fresh one: `result` kept between calls and never reset
ExpandPattern_ReusedSlice(token, o) ==
    LET lc == ToLower(token)
        uc == ToUpper(token)
    IN  expanded \o
        (IF o.Everywhere
         THEN IF o.BothCases
              THEN << LocalPrefix \o lc, LocalPrefix \o uc,
                      RecursivePrefix \o lc, RecursivePrefix \o uc >>
              ELSE << LocalPrefix \o token, RecursivePrefix \o token >>
         ELSE IF o.BothCases
              THEN << LocalPrefix \o lc, LocalPrefix \o uc >>
              ELSE << LocalPrefix \o token >>)

\* ExpandPattern losing the recursive upper-case glob
ExpandPattern_DropLast(token, o) ==
    LET lc == ToLower(token)
        uc == ToUpper(token)
    IN  IF o.Everywhere
        THEN IF o.BothCases
             THEN << LocalPrefix \o lc, LocalPrefix \o uc, RecursivePrefix \o lc >>
             ELSE << LocalPrefix \o token, RecursivePrefix \o token >>
        ELSE IF o.BothCases
             THEN << LocalPrefix \o lc, LocalPrefix \o uc >>
             ELSE << LocalPrefix \o token >>

\* ExpandPattern grouping by case instead of by scope
ExpandPattern_ByCase(token, o) ==
    LET lc == ToLower(token)
        uc == ToUpper(token)
    IN  IF o.Everywhere
        THEN IF o.BothCases
             THEN << LocalPrefix \o lc, RecursivePrefix \o lc,
                     LocalPrefix \o uc, RecursivePrefix \o uc >>
             ELSE << LocalPrefix \o token, RecursivePrefix \o token >>
        ELSE IF o.BothCases
             THEN << LocalPrefix \o lc, LocalPrefix \o uc >>
             ELSE << LocalPrefix \o token >>

\* ExpandPattern folding the token to lower case when BothCases is off
ExpandPattern_AlwaysFold(token, o) ==
    LET lc == ToLower(token)
        uc == ToUpper(token)
    IN  IF o.Everywhere
        THEN IF o.BothCases
             THEN << LocalPrefix \o lc, LocalPrefix \o uc,
                     RecursivePrefix \o lc, RecursivePrefix \o uc >>
             ELSE << LocalPrefix \o lc, RecursivePrefix \o lc >>
        ELSE IF o.BothCases
             THEN << LocalPrefix \o lc, LocalPrefix \o uc >>
             ELSE << LocalPrefix \o lc >>

\* ExpandPattern emitting a glob once when both folds are the same string
ExpandPattern_Dedup(token, o) ==
    LET lc == ToLower(token)
        uc == ToUpper(token)
        cases(prefix) == IF lc = uc THEN << prefix \o lc >>
                         ELSE << prefix \o lc, prefix \o uc >>
    IN  IF o.Everywhere
        THEN IF o.BothCases
             THEN cases(LocalPrefix) \o cases(RecursivePrefix)
             ELSE << LocalPrefix \o token, RecursivePrefix \o token >>
        ELSE IF o.BothCases
             THEN cases(LocalPrefix)
             ELSE << LocalPrefix \o token >>

\* `token` is the source's parameter `pattern`, `o` its `opts`
ExpandPattern(token, o) ==
    LET lc == ToLower(token)
        uc == ToUpper(token)
    IN  IF o.Everywhere
        THEN IF o.BothCases
             THEN << LocalPrefix \o lc, LocalPrefix \o uc,
                     RecursivePrefix \o lc, RecursivePrefix \o uc >>
             ELSE << LocalPrefix \o token, RecursivePrefix \o token >>
        ELSE IF o.BothCases
             THEN << LocalPrefix \o lc, LocalPrefix \o uc >>
             ELSE << LocalPrefix \o token >>


\* the whole label, its first word included, passed as arguments
executeCommand_KeepName(cmdStr, args) ==
    LET parts == Fields(cmdStr)
    IN  [ name |-> parts[1],
          args |-> parts \o args,
          stdio |-> [Stdin |-> "os.Stdin", Stdout |-> "os.Stdout", Stderr |-> "os.Stderr"] ]

\* exec.Command(parts[0], append(parts[1:], args...)) with the three standard
\* streams set to the parent's
executeCommand(cmdStr, args) ==
    LET parts == Fields(cmdStr)
    IN  [ name |-> parts[1],
          args |-> Tail(parts) \o args,
          stdio |-> [Stdin |-> "os.Stdin", Stdout |-> "os.Stdout", Stderr |-> "os.Stderr"] ]

\* fmt.Printf("DRY RUN: %s %s\n", opts.Command, strings.Join(expanded, " "))
DryRunPrefix == <<"D","R","Y"," ","R","U","N",":"," ">>
\* the globs joined by commas instead of single spaces
DryRunLine_Comma(command, globs) == DryRunPrefix \o command \o <<" ">> \o Join(globs, <<",">>)

DryRunLine(command, globs) == DryRunPrefix \o command \o <<" ">> \o Join(globs, <<" ">>)

\* the first line of lfsfiles.PrintHelp's text after the title; stands for the help text
HelpLine == <<"U","S","A","G","E",":">>

----------------------------------------------------------------------------
(* Error values *)

\* Go's nil error
NilError == [kind |-> "nil"]
\* *exec.ExitError: the child ran and exited with a non-zero status
ExitError(code) == [kind |-> "ExitError", code |-> code]
\* *exec.Error: the child could not be started (name not found in PATH)
ExecError(name) == [kind |-> "exec.Error", name |-> name]

\* the exit statuses a child may report
ChildExitCodes == {0, 1}

\* cmd.Run()'s return value for a child that exited with `code`
RunResult(code) == IF code = 0 THEN NilError ELSE ExitError(code)

NoExit == -1

----------------------------------------------------------------------------
(* Inputs *)

Alphabet == {"m", "V", "7"}

RECURSIVE StringsUpTo(_)
StringsUpTo(n) ==
    IF n = 0 THEN {<<>>}
    ELSE LET shorter == StringsUpTo(n - 1)
         IN  shorter \cup {Append(s, c) : s \in shorter, c \in Alphabet}

\* tokens handed to ExpandPattern when it is called on its own
Tokens == StringsUpTo(MaxTokenLen)

\* tokens handed to the entry points and to Execute
ExecTokens == {<<"m","p","3">>, <<"M","o","V">>, <<"7">>}

RECURSIVE ListsUpTo(_)
ListsUpTo(n) ==
    IF n = 0 THEN {<<>>}
    ELSE LET shorter == ListsUpTo(n - 1)
         IN  shorter \cup {Append(l, t) : l \in shorter, t \in ExecTokens}

TokenLists == ListsUpTo(MaxTokens)

\* the binaries whose main calls lfsfiles.Execute, with their CommandType
EntryPoints == {"git-ls-files", "git-lfs-files", "git-lfs-track"}
EntryCommandType(c) ==
    CASE c = "git-ls-files" -> LsFiles
      [] c = "git-lfs-files" -> LfsLsFiles
      [] c = "git-lfs-track" -> LfsTrack

----------------------------------------------------------------------------
(* cmd/git-unmigrate *)

GitCommand == <<"g","i","t">>
CommitMessage == <<"R","e","s","t","o","r","e"," ","p","a","t","t","e","r","n","s"," ","t","o"," ","G","i","t"," ","f","r","o","m"," ","G","i","t"," ","L","F","S">>

\* exec.Command("git", "rev-parse", "--git-dir") of common.CheckGitRepo: no stream is set
RevParseCommand ==
    [ name |-> GitCommand,
      args |-> << <<"r","e","v","-","p","a","r","s","e">>, <<"-","-","g","i","t","-","d","i","r">> >>,
      stdio |-> [Stdin |-> "nil", Stdout |-> "nil", Stderr |-> "nil"] ]

\* the error common.CheckGitRepo returns when its command fails
NotGitRepoError ==
    [kind |-> "errorString", text |-> "not a git repository (or any of the parent directories)"]

\* the errors of common.CheckLFSInstalled and common.CheckLFSInitialized
LFSNotInstalledError == [kind |-> "errorString", text |-> "CheckLFSInstalled"]
LFSNotInitializedError == [kind |-> "errorString", text |-> "CheckLFSInitialized"]

\* what common.PrintError writes to standard error before os.Exit(1)
PrintErrorLine(format, args) == [prefix |-> "Error: ", format |-> format, args |-> args]

\* the untrack failure reported without the pattern
UntrackFailureLine_NoToken(token, e) == PrintErrorLine("Failed to untrack: %v", <<e>>)

\* common.PrintError("Failed to untrack pattern %s: %v", pattern, err)
UntrackFailureLine(token, e) ==
    PrintErrorLine("Failed to untrack pattern %s: %v", <<token, e>>)

\* exec.Command("git", args...) with Stdout and Stderr set to the parent's
runGitCommand(args) ==
    [ name |-> GitCommand,
      args |-> args,
      stdio |-> [Stdin |-> "nil", Stdout |-> "os.Stdout", Stderr |-> "os.Stderr"] ]

\* args := append([]string{"lfs", "untrack"}, expanded...)
UntrackArgs(globs) == << <<"l","f","s">>, <<"u","n","t","r","a","c","k">> >> \o globs

\* fmt.Printf("DRY RUN: git lfs untrack %s\n", strings.Join(expanded, " "))
UnmigrateDryRunLine(globs) ==
    <<"D","R","Y"," ","R","U","N",":"," ","g","i","t"," ","l","f","s"," ","u","n","t","r","a","c","k"," ">> \o Join(globs, <<" ">>)

\* the advisory lines without the push
FollowUpDryRunLines_NoPush ==
    << <<"D","R","Y"," ","R","U","N",":"," ","g","i","t"," ","a","d","d"," ","-","-","r","e","n","o","r","m","a","l","i","z","e"," ",".">>,
       <<"D","R","Y"," ","R","U","N",":"," ","g","i","t"," ","c","o","m","m","i","t"," ","-","m"," ","\"","R","e","s","t","o","r","e"," ","p","a","t","t","e","r","n","s"," ","t","o"," ","G","i","t"," ","f","r","o","m"," ","G","i","t"," ","L","F","S","\"">> >>

\* the three advisory lines printed after the per-token lines of a dry run
FollowUpDryRunLines ==
    << <<"D","R","Y"," ","R","U","N",":"," ","g","i","t"," ","a","d","d"," ","-","-","r","e","n","o","r","m","a","l","i","z","e"," ",".">>,
       <<"D","R","Y"," ","R","U","N",":"," ","g","i","t"," ","c","o","m","m","i","t"," ","-","m"," ","\"","R","e","s","t","o","r","e"," ","p","a","t","t","e","r","n","s"," ","t","o"," ","G","i","t"," ","f","r","o","m"," ","G","i","t"," ","L","F","S","\"">>,
       <<"D","R","Y"," ","R","U","N",":"," ","g","i","t"," ","p","u","s","h">> >>

\* the arguments each step hands to runGitCommand
StepArgs(step) ==
    CASE step = "add" -> << <<"a","d","d">>, <<"-","-","r","e","n","o","r","m","a","l","i","z","e">>, <<".">> >>
      [] step = "commit" -> << <<"c","o","m","m","i","t">>, <<"-","m">>, CommitMessage >>
      [] step = "push" -> << <<"p","u","s","h">> >>

\* the line printed before each step
StepProgressLine(step) ==
    CASE step = "add" -> <<"R","e","n","o","r","m","a","l","i","z","i","n","g"," ","f","i","l","e","s",".",".",".">>
      [] step = "commit" -> <<"C","o","m","m","i","t","t","i","n","g"," ","c","h","a","n","g","e","s",".",".",".">>
      [] step = "push" -> <<"P","u","s","h","i","n","g"," ","c","h","a","n","g","e","s",".",".",".">>

NoChangesLine == <<"N","o"," ","c","h","a","n","g","e","s"," ","t","o"," ","c","o","m","m","i","t">>
CompleteLine == <<"U","n","m","i","g","r","a","t","i","o","n"," ","c","o","m","p","l","e","t","e","!">>

\* the format each fatal step hands to common.PrintError
StepFailureFormat(step) ==
    CASE step = "add" -> "Failed to renormalize: %v"
      [] step = "push" -> "Failed to push: %v"

\* only a failed push ends the run
StepFailureIsFatal_OnlyPush(step) == step = "push"

\* only a failed add ends the run: a failed push is passed over like a failed commit
StepFailureIsFatal_OnlyAdd(step) == step = "add"

\* a failed add or push calls common.PrintError; a failed commit is only reported
StepFailureIsFatal(step) == step \in {"add", "push"}

\* the follow-up steps begin as soon as the first token is untracked
UntrackPassDone_AfterFirst(idx, ps) == idx > 1

\* the range loop over patterns has ended
UntrackPassDone(idx, ps) == idx > Len(ps)

\* where each step waits for its child, and where the run goes on after it
StepRunPc(step) ==
    CASE step = "add" -> "umAddRun" [] step = "commit" -> "umCommitRun"
      [] step = "push" -> "umPushRun"
StepNextPc(step) ==
    CASE step = "add" -> "umCommit" [] step = "commit" -> "umPush" [] step = "push" -> "exited"

\* git-unmigrate when flag.Parse() has returned: the four flags and the tokens
InitUnmigrate ==
    /\ caller = "git-unmigrate"
    /\ showHelp \in BOOLEAN
    /\ \E c \in BOOLEAN, d \in BOOLEAN, e \in BOOLEAN :
         opts = [BothCases |-> c, DryRun |-> d, Everywhere |-> e, Command |-> <<>>]
    /\ patterns \in TokenLists
    /\ pc = "umMain"

----------------------------------------------------------------------------
(* Initial states *)

\* an entry point when pflag.Parse() has returned: the four flags and the tokens
InitMain ==
    /\ caller \in EntryPoints
    /\ showHelp \in BOOLEAN
    /\ \E c \in BOOLEAN, d \in BOOLEAN, e \in BOOLEAN :
         opts = [BothCases |-> c, DryRun |-> d, Everywhere |-> e, Command |-> <<>>]
    /\ patterns \in TokenLists
    /\ pc = "main"

\* a direct call of lfsfiles.Execute with any of the four command labels
InitExecute ==
    /\ caller = "Execute"
    /\ \E c \in BOOLEAN, d \in BOOLEAN, e \in BOOLEAN, t \in CommandType :
         opts = [BothCases |-> c, DryRun |-> d, Everywhere |-> e,
                 Command |-> GetCommandString(t)]
    /\ patterns \in TokenLists
    /\ pc = "Execute"

\* a direct call of lfsfiles.ExpandPattern, as the package's tests make
InitExpandPattern ==
    /\ caller = "ExpandPattern"
    /\ \E c \in BOOLEAN, e \in BOOLEAN :
         opts = [BothCases |-> c, DryRun |-> FALSE, Everywhere |-> e, Command |-> <<>>]
    /\ \E t \in Tokens : patterns = <<t>>
    /\ pc = "ExpandPattern"

\* the values a CommandType variable is given: the four constants and
\* integers on both sides of them
CommandTypeValues == (LsFiles - 1)..(LfsUntrack + 2)

\* a direct call of lfsfiles.GetCommandString, as the package's tests make
InitGetCommandString ==
    /\ caller = "GetCommandString"
    /\ opts = [BothCases |-> FALSE, DryRun |-> FALSE, Everywhere |-> FALSE, Command |-> <<>>]
    /\ patterns = <<>>
    /\ cmdTypeArg \in CommandTypeValues
    /\ pc = "GetCommandString"

\* git-giftless not running: no goroutine, no channel, no signal
IdleGiftless ==
    /\ runPc = "idle"
    /\ cmdProcess = FALSE
    /\ sigChan = <<>>
    /\ errChan = <<>>
    /\ arrived = <<>>
    /\ forwarded = <<>>

\* the release tool not running: no version chosen, no VERSION file of interest
IdleRelease ==
    /\ version = <<>>
    /\ versionFile = <<>>
    /\ githubToken = <<>>

Init ==
    /\ \/ /\ \/ InitMain
             \/ InitUnmigrate
             \/ /\ \/ InitExecute
                   \/ InitExpandPattern
                /\ showHelp = FALSE
          /\ cmdTypeArg = LsFiles
       \/ /\ InitGetCommandString
          /\ showHelp = FALSE
    /\ stdin = <<>>
    /\ scanned = 0
    /\ IdleGiftless
    /\ IdleRelease
    /\ i = 1
    /\ pattern = <<>>
    /\ expanded = <<>>
    /\ stdout = <<>>
    /\ stderr = <<>>
    /\ invocations = <<>>
    /\ err = NilError
    /\ exitCode = NoExit
    /\ previous = <<>>

----------------------------------------------------------------------------
(* exec.Cmd.Run: an entry of `invocations` is a command handed to cmd.Run,   *)
(* with what became of it: "running" while the parent is blocked in Run,    *)
(* "exited" with the child's status in `code`, or "notstarted" when Run      *)
(* failed before a child existed.                                           *)

Invocation(cmd, status, code) ==
    [name |-> cmd.name, args |-> cmd.args, stdio |-> cmd.stdio,
     status |-> status, code |-> code]

\* cmd.Run returning while the child is still running
Finish_NoWait(code) == invocations

\* the child of the last invocation exits with `code` and cmd.Run returns
Finish(code) ==
    [invocations EXCEPT ![Len(invocations)] =
        [@ EXCEPT !.status = "exited", !.code = code]]

\* a label naming one ls-files command only
IsListCommand_OnlyGitLsFiles(command) ==
    command = GitLsFilesLabel

\* opts.Command == "git ls-files" || opts.Command == "git lfs ls-files"
IsListCommand(command) ==
    command = GitLsFilesLabel \/ command = GitLfsLsFilesLabel

\* the dry-run branch never taken
TakesDryRunPath_Never(o) == FALSE

\* if opts.DryRun
TakesDryRunPath(o) == o.DryRun

\* the bare command run for an empty token list whatever the label
TakesBarePath_AnyLabel(ps, o) == Len(ps) = 0

\* len(patterns) == 0 && it is a ls-files command
TakesBarePath(ps, o) == Len(ps) = 0 /\ IsListCommand(o.Command)

\* a failed run taken for a success
RunFailed_Never(e) == FALSE

\* err != nil
RunFailed(e) == e # NilError

\* return err: the loop's error goes to the caller as it is
ReturnedError(token, e) == e

----------------------------------------------------------------------------
(* lfsfiles.ExpandPattern called on its own *)

CallExpandPattern ==
    /\ pc = "ExpandPattern"
    /\ pattern' = patterns[1]
    /\ expanded' = ExpandPattern(pattern', opts)
    /\ pc' = "done"
    /\ UNCHANGED <<toolVars, previous, caller, opts, patterns, i, stdout, stderr, invocations, err, exitCode>>

\* result := GetCommandString(tt.cmdType)
CallGetCommandString ==
    /\ pc = "GetCommandString"
    /\ opts' = [opts EXCEPT !.Command = GetCommandString(cmdTypeArg)]
    /\ pc' = "done"
    /\ UNCHANGED <<toolVars, previous, caller, patterns, i, pattern, expanded, stdout, stderr,
                   invocations, err, exitCode>>

----------------------------------------------------------------------------
(* lfsfiles.Execute *)

\* one iteration of the dry-run loop
ExecuteDryRunLine ==
    /\ pc = "Execute"
    /\ TakesDryRunPath(opts)
    /\ i <= Len(patterns)
    /\ pattern' = patterns[i]
    /\ expanded' = ExpandPattern(pattern', opts)
    /\ stdout' = Append(stdout, DryRunLine(opts.Command, expanded'))
    /\ i' = i + 1
    /\ UNCHANGED <<toolVars, previous, caller, opts, patterns, pc, stderr, invocations, err, exitCode>>

\* the dry-run loop is over: return nil
ExecuteDryRunReturn ==
    /\ pc = "Execute"
    /\ TakesDryRunPath(opts)
    /\ i > Len(patterns)
    /\ err' = NilError
    /\ pc' = "returned"
    /\ UNCHANGED <<toolVars, previous, caller, pattern, opts, patterns, i, expanded, stdout, stderr, invocations, exitCode>>

\* no patterns and a ls-files command: run the bare command
ExecuteBare ==
    /\ pc = "Execute"
    /\ ~TakesDryRunPath(opts)
    /\ TakesBarePath(patterns, opts)
    /\ LET cmd == executeCommand(opts.Command, <<>>)
       IN  \/ /\ invocations' = Append(invocations, Invocation(cmd, "running", NoExit))
              /\ pc' = "RunBare"
              /\ UNCHANGED err
           \/ /\ invocations' = Append(invocations, Invocation(cmd, "notstarted", NoExit))
              /\ err' = ExecError(cmd.name)
              /\ pc' = "returned"
    /\ UNCHANGED <<toolVars, previous, caller, pattern, opts, patterns, i, expanded, stdout, stderr, exitCode>>

\* the bare command exits; Execute returns cmd.Run's result
ExecuteBareReturn ==
    /\ pc = "RunBare"
    /\ \E code \in ChildExitCodes :
         /\ invocations' = Finish(code)
         /\ err' = RunResult(code)
    /\ pc' = "returned"
    /\ UNCHANGED <<toolVars, previous, caller, pattern, opts, patterns, i, expanded, stdout, stderr, exitCode>>

\* one iteration of the live loop, up to the call of cmd.Run
ExecuteRun ==
    /\ pc = "Execute"
    /\ ~TakesDryRunPath(opts)
    /\ ~TakesBarePath(patterns, opts)
    /\ i <= Len(patterns)
    /\ pattern' = patterns[i]
    /\ expanded' = ExpandPattern(pattern', opts)
    /\ LET cmd == executeCommand(opts.Command, expanded')
       IN  \/ /\ invocations' = Append(invocations, Invocation(cmd, "running", NoExit))
              /\ pc' = "Run"
              /\ UNCHANGED err
           \/ /\ invocations' = Append(invocations, Invocation(cmd, "notstarted", NoExit))
              /\ err' = ReturnedError(pattern', ExecError(cmd.name))
              /\ pc' = "returned"
    /\ UNCHANGED <<toolVars, previous, caller, opts, patterns, i, stdout, stderr, exitCode>>

\* cmd.Run returns: on an error Execute returns it, else the loop goes on
ExecuteRunReturn ==
    /\ pc = "Run"
    /\ \E code \in ChildExitCodes :
         /\ invocations' = Finish(code)
         /\ IF RunFailed(RunResult(code))
            THEN /\ err' = ReturnedError(pattern, RunResult(code))
                 /\ pc' = "returned"
                 /\ UNCHANGED i
            ELSE /\ i' = i + 1
                 /\ pc' = "Execute"
                 /\ UNCHANGED err
    /\ UNCHANGED <<toolVars, previous, caller, pattern, opts, patterns, expanded, stdout, stderr, exitCode>>

\* the live loop is over: return nil
ExecuteReturn ==
    /\ pc = "Execute"
    /\ ~TakesDryRunPath(opts)
    /\ ~TakesBarePath(patterns, opts)
    /\ i > Len(patterns)
    /\ err' = NilError
    /\ pc' = "returned"
    /\ UNCHANGED <<toolVars, previous, caller, pattern, opts, patterns, i, expanded, stdout, stderr, invocations, exitCode>>

----------------------------------------------------------------------------
(* The entry points' main *)

\* what main prints for a failed Execute: fmt.Fprintf(os.Stderr, "Error: %v\n", err)
ErrorLine(e) == [format |-> "Error: %v", arg |-> e]

\* the missing token list never noticed
PatternsMissing_Never(ps) == FALSE

\* len(patterns) == 0
PatternsMissing(ps) == Len(ps) = 0

\* every outcome of Execute mapped to exit status 0
ExitStatus_AlwaysZero(e) == 0

\* os.Exit(1) after a reported error, else main returns and the status is 0
ExitStatus(e) == IF e # NilError THEN 1 ELSE 0

\* if showHelp { lfsfiles.PrintHelp(...); os.Exit(0) }, in each entry point
MainHelp ==
    /\ pc = "main"
    /\ showHelp
    /\ stdout' = Append(stdout, HelpLine)
    /\ exitCode' = 0
    /\ pc' = "exited"
    /\ UNCHANGED <<toolVars, previous, caller, pattern, opts, patterns, i, expanded, stderr, invocations, err>>

\* git-lfs-track: if len(patterns) == 0 && !showHelp, print the help and exit 1
MainNoPatterns ==
    /\ pc = "main"
    /\ ~showHelp
    /\ caller = "git-lfs-track"
    /\ PatternsMissing(patterns)
    /\ stdout' = Append(stdout, HelpLine)
    /\ exitCode' = 1
    /\ pc' = "exited"
    /\ UNCHANGED <<toolVars, previous, caller, pattern, opts, patterns, i, expanded, stderr, invocations, err>>

\* set opts.Command and call lfsfiles.Execute(patterns, opts)
MainExecute ==
    /\ pc = "main"
    /\ ~showHelp
    /\ ~(caller = "git-lfs-track" /\ PatternsMissing(patterns))
    /\ opts' = [opts EXCEPT !.Command = GetCommandString(EntryCommandType(caller))]
    /\ pc' = "Execute"
    /\ UNCHANGED <<toolVars, previous, caller, pattern, patterns, i, expanded, stdout, stderr, invocations, err, exitCode>>

\* Execute returned to main: report an error and exit 1, or fall off main
MainExit ==
    /\ pc = "returned"
    /\ caller \in EntryPoints
    /\ stderr' = IF err # NilError THEN Append(stderr, ErrorLine(err)) ELSE stderr
    /\ exitCode' = ExitStatus(err)
    /\ pc' = "exited"
    /\ UNCHANGED <<toolVars, previous, caller, pattern, opts, patterns, i, expanded, stdout, invocations, err>>

----------------------------------------------------------------------------

----------------------------------------------------------------------------
(* git-unmigrate's main *)

\* git-unmigrate entering its workflow without tokens
NoPatterns_Never(ps) == FALSE

\* if len(patterns) == 0, in git-unmigrate's main
NoPatterns(ps) == Len(ps) = 0

\* PrintError only writing its line: the process goes on to the workflow
PrintError_NoExit(line) ==
    /\ stderr' = Append(stderr, line)
    /\ exitCode' = exitCode
    /\ pc' = "umLoop"

\* common.PrintError: the line goes to standard error and the process exits 1
PrintError(line) ==
    /\ stderr' = Append(stderr, line)
    /\ exitCode' = 1
    /\ pc' = "exited"

\* if showHelp { printHelp(); os.Exit(0) }
UnmigrateHelp ==
    /\ pc = "umMain"
    /\ showHelp
    /\ stdout' = Append(stdout, HelpLine)
    /\ exitCode' = 0
    /\ pc' = "exited"
    /\ UNCHANGED <<toolVars, previous, caller, opts, patterns, i, pattern, expanded, stderr, invocations, err>>

\* if len(patterns) == 0 { printHelp(); os.Exit(1) }
UnmigrateNoPatterns ==
    /\ pc = "umMain"
    /\ ~showHelp
    /\ NoPatterns(patterns)
    /\ stdout' = Append(stdout, HelpLine)
    /\ exitCode' = 1
    /\ pc' = "exited"
    /\ UNCHANGED <<toolVars, previous, caller, opts, patterns, i, pattern, expanded, stderr, invocations, err>>

\* common.CheckGitRepo starts git rev-parse --git-dir
UnmigrateCheckGitRepo ==
    /\ pc = "umMain"
    /\ ~showHelp
    /\ ~NoPatterns(patterns)
    /\ \/ /\ invocations' = Append(invocations, Invocation(RevParseCommand, "running", NoExit))
          /\ pc' = "umCheckGitRepo"
          /\ UNCHANGED <<stderr, err, exitCode>>
       \/ /\ invocations' = Append(invocations, Invocation(RevParseCommand, "notstarted", NoExit))
          /\ err' = NotGitRepoError
          /\ PrintError(PrintErrorLine("%v", <<NotGitRepoError>>))
    /\ UNCHANGED <<toolVars, previous, caller, opts, patterns, i, pattern, expanded, stdout>>

\* git rev-parse returns: a failure is the not-a-repository error, which is fatal
UnmigrateCheckGitRepoReturn ==
    /\ pc = "umCheckGitRepo"
    /\ \E code \in ChildExitCodes :
         /\ invocations' = Finish(code)
         /\ IF RunFailed(RunResult(code))
            THEN /\ err' = NotGitRepoError
                 /\ PrintError(PrintErrorLine("%v", <<NotGitRepoError>>))
            ELSE /\ pc' = "umCheckLFSInstalled"
                 /\ UNCHANGED <<stderr, err, exitCode>>
    /\ UNCHANGED <<toolVars, previous, caller, opts, patterns, i, pattern, expanded, stdout>>

\* common.CheckLFSInstalled: passes, or its error is fatal
UnmigrateCheckLFSInstalled ==
    /\ pc = "umCheckLFSInstalled"
    /\ \/ /\ pc' = "umCheckLFSInitialized"
          /\ UNCHANGED <<stderr, err, exitCode>>
       \/ /\ err' = LFSNotInstalledError
          /\ PrintError(PrintErrorLine("%v", <<LFSNotInstalledError>>))
    /\ UNCHANGED <<toolVars, previous, caller, opts, patterns, i, pattern, expanded, stdout, invocations>>

\* common.CheckLFSInitialized: passes and the options are built, or its error is fatal
UnmigrateCheckLFSInitialized ==
    /\ pc = "umCheckLFSInitialized"
    /\ \/ /\ opts' = [opts EXCEPT !.Command = GitLfsUntrackLabel]
          /\ pc' = "umLoop"
          /\ UNCHANGED <<stderr, err, exitCode>>
       \/ /\ err' = LFSNotInitializedError
          /\ PrintError(PrintErrorLine("%v", <<LFSNotInitializedError>>))
          /\ UNCHANGED opts
    /\ UNCHANGED <<toolVars, previous, caller, patterns, i, pattern, expanded, stdout, invocations>>

\* one pass of the dry-run loop: expand the token and print its line
UnmigrateDryRunToken ==
    /\ pc = "umLoop"
    /\ TakesDryRunPath(opts)
    /\ i <= Len(patterns)
    /\ pattern' = patterns[i]
    /\ expanded' = ExpandPattern(pattern', opts)
    /\ stdout' = Append(stdout, UnmigrateDryRunLine(expanded'))
    /\ i' = i + 1
    /\ UNCHANGED <<toolVars, previous, caller, opts, patterns, pc, stderr, invocations, err, exitCode>>

\* after the dry-run loop: the three advisory lines, then os.Exit(0)
UnmigrateDryRunEnd ==
    /\ pc = "umLoop"
    /\ TakesDryRunPath(opts)
    /\ i > Len(patterns)
    /\ stdout' = stdout \o FollowUpDryRunLines
    /\ exitCode' = 0
    /\ pc' = "exited"
    /\ UNCHANGED <<toolVars, previous, caller, opts, patterns, i, pattern, expanded, stderr, invocations, err>>

\* one pass of the live loop: expand the token and start git lfs untrack
UnmigrateUntrack ==
    /\ pc = "umLoop"
    /\ ~TakesDryRunPath(opts)
    /\ ~UntrackPassDone(i, patterns)
    /\ pattern' = patterns[i]
    /\ expanded' = ExpandPattern(pattern', opts)
    /\ LET cmd == runGitCommand(UntrackArgs(expanded'))
       IN  \/ /\ invocations' = Append(invocations, Invocation(cmd, "running", NoExit))
              /\ pc' = "umUntrack"
              /\ UNCHANGED <<stderr, err, exitCode>>
           \/ /\ invocations' = Append(invocations, Invocation(cmd, "notstarted", NoExit))
              /\ err' = ExecError(cmd.name)
              /\ PrintError(UntrackFailureLine(pattern', err'))
    /\ UNCHANGED <<toolVars, previous, caller, opts, patterns, i, stdout>>

\* git lfs untrack returns: a failure is fatal, else the loop goes on
UnmigrateUntrackReturn ==
    /\ pc = "umUntrack"
    /\ \E code \in ChildExitCodes :
         /\ invocations' = Finish(code)
         /\ err' = RunResult(code)
         /\ IF RunFailed(err')
            THEN /\ PrintError(UntrackFailureLine(pattern, err'))
                 /\ UNCHANGED i
            ELSE /\ i' = i + 1
                 /\ pc' = "umLoop"
                 /\ UNCHANGED <<stderr, exitCode>>
    /\ UNCHANGED <<toolVars, previous, caller, opts, patterns, pattern, expanded, stdout>>

\* what follows a step whose command ended with error e, `out` being the
\* standard output so far: a fatal failure goes to PrintError, a failed commit
\* prints its notice and goes on, a successful push prints the completion line
\* and main returns
FollowUpOutcome(step, e, out) ==
    IF RunFailed(e) /\ StepFailureIsFatal(step)
    THEN /\ PrintError(PrintErrorLine(StepFailureFormat(step), <<e>>))
         /\ stdout' = out
    ELSE /\ stdout' = IF RunFailed(e) THEN Append(out, NoChangesLine)
                      ELSE IF step = "push" THEN Append(out, CompleteLine)
                      ELSE out
         /\ pc' = StepNextPc(step)
         /\ exitCode' = IF StepNextPc(step) = "exited" THEN 0 ELSE exitCode
         /\ UNCHANGED stderr

\* a step prints its progress line and starts its git command
FollowUpStart(step) ==
    /\ LET cmd == runGitCommand(StepArgs(step))
           out == Append(stdout, StepProgressLine(step))
       IN  \/ /\ invocations' = Append(invocations, Invocation(cmd, "running", NoExit))
              /\ stdout' = out
              /\ pc' = StepRunPc(step)
              /\ UNCHANGED <<stderr, err, exitCode>>
           \/ /\ invocations' = Append(invocations, Invocation(cmd, "notstarted", NoExit))
              /\ err' = ExecError(cmd.name)
              /\ FollowUpOutcome(step, err', out)
    /\ UNCHANGED <<toolVars, previous, caller, opts, patterns, i, pattern, expanded>>

\* a step's git command returns
FollowUpReturn(step) ==
    /\ \E code \in ChildExitCodes :
         /\ invocations' = Finish(code)
         /\ err' = RunResult(code)
         /\ FollowUpOutcome(step, err', stdout)
    /\ UNCHANGED <<toolVars, previous, caller, opts, patterns, i, pattern, expanded>>

\* after the last untrack: git add --renormalize .
UnmigrateAdd ==
    /\ pc = "umLoop"
    /\ ~TakesDryRunPath(opts)
    /\ UntrackPassDone(i, patterns)
    /\ FollowUpStart("add")

\* git add returns
UnmigrateAddReturn ==
    /\ pc = StepRunPc("add")
    /\ FollowUpReturn("add")

\* git commit -m "Restore patterns to Git from Git LFS"
UnmigrateCommit ==
    /\ pc = "umCommit"
    /\ FollowUpStart("commit")

\* git commit returns
UnmigrateCommitReturn ==
    /\ pc = StepRunPc("commit")
    /\ FollowUpReturn("commit")

\* git push
UnmigratePush ==
    /\ pc = "umPush"
    /\ FollowUpStart("push")

\* git push returns
UnmigratePushReturn ==
    /\ pc = StepRunPc("push")
    /\ FollowUpReturn("push")

Next ==
    \/ CallExpandPattern
    \/ CallGetCommandString
    \/ ExecuteDryRunLine
    \/ ExecuteDryRunReturn
    \/ ExecuteBare
    \/ ExecuteBareReturn
    \/ ExecuteRun
    \/ ExecuteRunReturn
    \/ ExecuteReturn
    \/ MainHelp
    \/ MainNoPatterns
    \/ MainExecute
    \/ MainExit
    \/ UnmigrateHelp
    \/ UnmigrateNoPatterns
    \/ UnmigrateCheckGitRepo
    \/ UnmigrateCheckGitRepoReturn
    \/ UnmigrateCheckLFSInstalled
    \/ UnmigrateCheckLFSInitialized
    \/ UnmigrateDryRunToken
    \/ UnmigrateDryRunEnd
    \/ UnmigrateUntrack
    \/ UnmigrateUntrackReturn
    \/ UnmigrateAdd
    \/ UnmigrateAddReturn
    \/ UnmigrateCommit
    \/ UnmigrateCommitReturn
    \/ UnmigratePush
    \/ UnmigratePushReturn

Spec == Init /\ [][Next]_vars

\* the command line of a finished dry run is entered again without -d: a new
\* process starts with the same tokens and the same other flags, and the
\* dry run's standard output is kept for comparison.  A run that printed the
\* help never reached the dry run
Rerun ==
    /\ caller \in EntryPoints \cup {"git-unmigrate"}
    /\ ~showHelp
    /\ pc = "exited" /\ exitCode = 0
    /\ opts.DryRun
    /\ previous = <<>>
    /\ previous' = <<stdout>>
    /\ opts' = [opts EXCEPT !.DryRun = FALSE, !.Command = <<>>]
    /\ pc' = IF caller = "git-unmigrate" THEN "umMain" ELSE "main"
    /\ i' = 1
    /\ pattern' = <<>>
    /\ expanded' = <<>>
    /\ stdout' = <<>>
    /\ stderr' = <<>>
    /\ invocations' = <<>>
    /\ err' = NilError
    /\ exitCode' = NoExit
    /\ UNCHANGED <<toolVars, caller, patterns>>

\* runs of the entry points, each dry run possibly followed by its live run
SpecRerun == Init /\ [][Next \/ Rerun]_vars

TypeOK ==
    /\ caller \in EntryPoints \cup {"Execute", "ExpandPattern", "GetCommandString", "git-unmigrate"}
    /\ cmdTypeArg \in CommandTypeValues
    /\ opts.BothCases \in BOOLEAN /\ opts.DryRun \in BOOLEAN /\ opts.Everywhere \in BOOLEAN
    /\ pc \in {"main", "Execute", "Run", "RunBare", "returned", "exited", "ExpandPattern", "done",
              "GetCommandString",
              "umMain", "umCheckGitRepo", "umCheckLFSInstalled", "umCheckLFSInitialized",
              "umLoop", "umUntrack", "umAddRun", "umCommit", "umCommitRun", "umPush",
              "umPushRun"}
    /\ i \in 1..(Len(patterns) + 1)
    /\ exitCode \in {NoExit, 0, 1}
    /\ err.kind \in {"nil", "ExitError", "exec.Error", "wrapped", "errorString"}

----------------------------------------------------------------------------
(* cmd/git-lfs-trace: JSON values *)

\* a JSON member of a line: absent, a string or a number
JAbsent == [type |-> "absent", str |-> "", num |-> 0]
JString(str) == [type |-> "string", str |-> str, num |-> 0]
JNumber(num) == [type |-> "number", str |-> "", num |-> num]

\* the "objects" member of a line: absent, an array of objects, or a number
NoObjects == [type |-> "absent", items |-> <<>>]
ObjectArray(items) == [type |-> "array", items |-> items]
ObjectsNotArray == [type |-> "number", items |-> <<>>]

\* objects as Git LFS sends them, and objects whose oid is no string
ObjectA == [oid |-> JString("a1"), size |-> JNumber(5)]
ObjectB == [oid |-> JString("b2"), size |-> JAbsent]
ObjectNumericOid == [oid |-> JNumber(7), size |-> JNumber(5)]
ObjectWithoutOid == [oid |-> JAbsent, size |-> JNumber(5)]

\* a line of standard input: whether it fits the scanner's buffer, what kind
\* of JSON text it is and, for a JSON object, its members "event" and "objects"
Line(fits, syntax, event, objects) ==
    [fits |-> fits, syntax |-> syntax, event |-> event, objects |-> objects]

TransferEvents == {"upload", "download"}
OtherEvents == {"init", "terminate", "verify"}

ObjectsMembers ==
    { NoObjects, ObjectsNotArray, ObjectArray(<<>>), ObjectArray(<<ObjectA>>),
      ObjectArray(<<ObjectNumericOid>>), ObjectArray(<<ObjectWithoutOid>>),
      ObjectArray(<<ObjectA, ObjectB>>), ObjectArray(<<ObjectB, ObjectA>>) }

\* the lines standard input is made of
TraceLines ==
    { Line(TRUE, "object", JString(e), o) : e \in TransferEvents, o \in ObjectsMembers }
      \cup { Line(TRUE, "object", JString(e), o) :
                e \in OtherEvents, o \in {NoObjects, ObjectArray(<<ObjectA>>)} }
      \cup { Line(TRUE, "object", e, NoObjects) : e \in {JAbsent, JNumber(1)} }
      \cup { Line(TRUE, x, JAbsent, NoObjects) : x \in {"null", "array", "invalid"} }
      \cup { Line(FALSE, "object", JString("init"), NoObjects) }

\* every standard input of at most n lines
RECURSIVE InputsUpTo(_)
InputsUpTo(n) ==
    IF n = 0 THEN {<<>>}
    ELSE LET shorter == InputsUpTo(n - 1)
         IN  shorter \cup {Append(l, t) : l \in shorter, t \in TraceLines}

\* var request Request
ZeroRequest == [Event |-> "", Objects |-> <<>>]

\* json.Unmarshal accepting every line that is JSON, whatever its members' types
Unmarshal_Lenient(line) ==
    [ err |-> line.syntax = "invalid",
      request |-> IF line.syntax = "object"
                  THEN [Event |-> line.event.str, Objects |-> line.objects.items]
                  ELSE ZeroRequest ]

\* json.Unmarshal([]byte(line), &request): text that is not JSON, a JSON value
\* that is no object, and a member of the wrong type are errors; null is
\* accepted and leaves the request as it was
Unmarshal(line) ==
    [ err |-> \/ line.syntax \in {"invalid", "array"}
              \/ /\ line.syntax = "object"
                 /\ line.event.type = "number" \/ line.objects.type = "number",
      request |-> IF line.syntax = "object"
                  THEN [Event |-> line.event.str, Objects |-> line.objects.items]
                  ELSE ZeroRequest ]

\* Response{...} with the fields left out at their zero values
Response(event, success, error, objects) ==
    [Event |-> event, Success |-> success, Error |-> error, Objects |-> objects]

\* oid, _ := object["oid"].(string)
OidOf(object) == IF object.oid.type = "string" THEN object.oid.str ELSE ""

\* size, _ := object["size"].(float64)
SizeOf(object) == IF object.size.type = "number" THEN object.size.num ELSE 0

\* fmt.Sprintf("https://example.com/<direction>/%s", oid)
Href(direction, oid) == [format |-> "https://example.com/" \o direction \o "/%s", arg |-> oid]

\* the object of a successful upload or download response
TransferObject(direction, object) ==
    [ oid |-> OidOf(object),
      size |-> SizeOf(object),
      actions |-> [name \in {direction} |-> [href |-> Href(direction, OidOf(object))]] ]

\* handleUpload and handleDownload, which differ in the direction only
handleTransfer(direction, request) ==
    IF Len(request.Objects) = 0
    THEN Response(direction, FALSE, "No object specified", <<>>)
    ELSE Response(direction, TRUE, "", <<TransferObject(direction, request.Objects[1])>>)

handleUpload(request) == handleTransfer("upload", request)
handleDownload(request) == handleTransfer("download", request)

handleRequest(request) ==
    CASE request.Event = "init" -> Response("init", TRUE, "", <<>>)
      [] request.Event = "terminate" -> Response("terminate", TRUE, "", <<>>)
      [] request.Event = "upload" -> handleUpload(request)
      [] request.Event = "download" -> handleDownload(request)
      [] OTHER -> Response(request.Event, FALSE, "Unsupported event", <<>>)

\* json.Marshal(response): "error" and "objects" are left out when empty
MarshalResponse(response) ==
    [ event |-> response.Event,
      success |-> response.Success,
      error |-> IF response.Error = "" THEN JAbsent ELSE JString(response.Error),
      objects |-> IF response.Objects = <<>> THEN NoObjects
                  ELSE ObjectArray(response.Objects) ]

\* what logRequest and logResponse write to standard error
logRequest(request) == [header |-> "== Request ==", body |-> request]
logResponse(response) == [header |-> "== Response ==", body |-> response]

----------------------------------------------------------------------------
(* git-lfs-trace's main *)

\* git-lfs-trace after flag.Parse(), standard input not yet read
InitTrace ==
    /\ caller = "git-lfs-trace"
    /\ showHelp \in BOOLEAN
    /\ stdin \in InputsUpTo(MaxLines)
    /\ scanned = 0
    /\ pc = "traceMain"
    /\ opts = [BothCases |-> FALSE, DryRun |-> FALSE, Everywhere |-> FALSE, Command |-> <<>>]
    /\ patterns = <<>>
    /\ i = 1
    /\ pattern = <<>>
    /\ expanded = <<>>
    /\ stdout = <<>>
    /\ stderr = <<>>
    /\ invocations = <<>>
    /\ err = NilError
    /\ exitCode = NoExit
    /\ previous = <<>>
    /\ cmdTypeArg = LsFiles
    /\ IdleGiftless
    /\ IdleRelease

traceFrame == <<caller, opts, patterns, i, pattern, expanded, invocations, err, previous,
                cmdTypeArg, showHelp, stdin, giftlessVars, releaseVars>>

\* if *showHelp { printHelp(); os.Exit(0) }
TraceHelp ==
    /\ pc = "traceMain"
    /\ showHelp
    /\ stdout' = Append(stdout, HelpLine)
    /\ exitCode' = 0
    /\ pc' = "exited"
    /\ UNCHANGED <<traceFrame, scanned, stderr>>

\* scanner := bufio.NewScanner(os.Stdin)
TraceStart ==
    /\ pc = "traceMain"
    /\ ~showHelp
    /\ pc' = "traceScan"
    /\ UNCHANGED <<traceFrame, scanned, stdout, stderr, exitCode>>

\* scanner.Scan() delivers the next line
TraceScan ==
    /\ pc = "traceScan"
    /\ scanned < Len(stdin)
    /\ stdin[scanned + 1].fits
    /\ scanned' = scanned + 1
    /\ pc' = "traceLine"
    /\ UNCHANGED <<traceFrame, stdout, stderr, exitCode>>

\* scanner.Scan() meets a line longer than its buffer: the loop ends and
\* scanner.Err() is reported
TraceScanError ==
    /\ pc = "traceScan"
    /\ scanned < Len(stdin)
    /\ ~stdin[scanned + 1].fits
    /\ stderr' = Append(stderr, [format |-> "Error reading input: %v",
                                 arg |-> "bufio.Scanner: token too long"])
    /\ exitCode' = 1
    /\ pc' = "exited"
    /\ UNCHANGED <<traceFrame, scanned, stdout>>

\* scanner.Scan() meets the end of standard input: main returns
TraceEnd ==
    /\ pc = "traceScan"
    /\ scanned = Len(stdin)
    /\ exitCode' = 0
    /\ pc' = "exited"
    /\ UNCHANGED <<traceFrame, scanned, stdout, stderr>>

\* the line does not unmarshal: continue
TraceSkip ==
    /\ pc = "traceLine"
    /\ Unmarshal(stdin[scanned]).err
    /\ pc' = "traceScan"
    /\ UNCHANGED <<traceFrame, scanned, stdout, stderr, exitCode>>

\* the line unmarshals: log the request, handle it, log and print the response
TraceRespond ==
    /\ pc = "traceLine"
    /\ ~Unmarshal(stdin[scanned]).err
    /\ LET request == Unmarshal(stdin[scanned]).request
           response == handleRequest(request)
       IN  /\ stderr' = stderr \o <<logRequest(request), logResponse(response)>>
           /\ stdout' = Append(stdout, MarshalResponse(response))
    /\ pc' = "traceScan"
    /\ UNCHANGED <<traceFrame, scanned, exitCode>>

NextTrace ==
    \/ TraceHelp
    \/ TraceStart
    \/ TraceScan
    \/ TraceScanError
    \/ TraceEnd
    \/ TraceSkip
    \/ TraceRespond

SpecTrace == InitTrace /\ [][NextTrace]_vars

----------------------------------------------------------------------------
(* git-giftless: the wrapper that starts the uwsgi server as a child, in a  *)
(* goroutine of its own, and passes SIGINT and SIGTERM on to it.  The main   *)
(* goroutine's position is `pc`, the server goroutine's is `runPc`; the      *)
(* child is the one entry of `invocations`.  cmd.Run is cmd.Start followed   *)
(* by cmd.Wait, and cmd.Start stores cmd.Process after the child has been    *)
(* created, so the child runs for a moment while cmd.Process is still nil.   *)

\* how many signals the environment delivers to the wrapper in one run
MaxSignals == 2

\* signal.Notify(sigChan, os.Interrupt, syscall.SIGTERM)
NotifiedSignals == {"interrupt", "terminated"}

\* make(chan os.Signal, 1) and make(chan error, 1)
ChanCapacity == 1

\* exec.Command("uwsgi", ...), or exec.Command("bash", "-c", bashCmd) when
\* the activation script exists; Stdout and Stderr are the parent's
ServerCommand(venv) ==
    [ name |-> IF venv THEN "bash" ELSE "uwsgi",
      args |-> IF venv
               THEN <<"-c", "source %s && uwsgi --master --threads=%d --processes=%d --manage-script-name --module=giftless.wsgi_entrypoint --callable=app --http=%s:%s">>
               ELSE <<"--master", "--threads=%d", "--processes=%d", "--manage-script-name",
                      "--module=giftless.wsgi_entrypoint", "--callable=app", "--http=%s:%s">>,
      stdio |-> [Stdin |-> "nil", Stdout |-> "os.Stdout", Stderr |-> "os.Stderr"] ]

\* printHelp()
GiftlessHelpLine == [format |-> "git-giftless - Start a Giftless Git LFS server", args |-> <<>>]
\* fmt.Fprintf(os.Stderr, "Error: Missing required dependencies:\n") ...
MissingDependenciesLine == [format |-> "Error: Missing required dependencies:", args |-> <<>>]
\* fmt.Println("✓ All prerequisites verified")
PrerequisitesVerifiedLine == [format |-> "All prerequisites verified", args |-> <<>>]
\* fmt.Printf("Starting Giftless LFS server on %s:%s\n", host, port)
StartingLine == [format |-> "Starting Giftless LFS server on %s:%s", args |-> <<"host", "port">>]
\* fmt.Printf("Workers: %d, Threads: %d\n", workers, threads)
WorkersLine == [format |-> "Workers: %d, Threads: %d", args |-> <<"workers", "threads">>]
\* fmt.Printf("\nReceived signal %v, shutting down...\n", sig)
ReceivedSignalLine(sig) == [format |-> "Received signal %v, shutting down...", args |-> <<sig>>]
\* fmt.Println("Server stopped")
ServerStoppedLine == [format |-> "Server stopped", args |-> <<>>]
\* common.PrintError("Server exited with error: %v", err)
ServerErrorLine(e) == PrintErrorLine("Server exited with error: %v", <<e>>)

\* os/signal sends without blocking: a signal that finds the buffer of
\* sigChan full is dropped
Deliver(ch, sig) == IF Len(ch) < ChanCapacity THEN Append(ch, sig) ELSE ch

\* cmd has been built: it is the last command, the only one whose Stdout is
\* the parent's
ServerBuilt ==
    invocations # <<>> /\ invocations[Len(invocations)].stdio.Stdout = "os.Stdout"
\* the server command and what became of its child
ServerChild == invocations[Len(invocations)]

\* the child can take a signal only while it is alive
ChildAlive == ServerBuilt /\ ServerChild.status = "running"

\* if cmd.Process != nil { cmd.Process.Signal(sig) }: Signal reaches the child
\* unless it has exited already
Forward(sig) ==
    IF cmdProcess /\ ChildAlive THEN Append(forwarded, sig) ELSE forwarded

\* one signal as the wrapper saw it arrive: `early` before the server goroutine
\* was launched, `childExited` after the child had exited
Arrival(sig) ==
    [sig |-> sig, early |-> runPc = "idle",
     childExited |-> ServerBuilt /\ ServerChild.status = "exited"]

InitGiftless ==
    /\ caller = "git-giftless"
    /\ pc = "gfMain"
    /\ showHelp \in BOOLEAN
    /\ opts = [BothCases |-> FALSE, DryRun |-> FALSE, Everywhere |-> FALSE, Command |-> <<>>]
    /\ patterns = <<>>
    /\ i = 1
    /\ pattern = <<>>
    /\ expanded = <<>>
    /\ stdout = <<>>
    /\ stderr = <<>>
    /\ invocations = <<>>
    /\ err = NilError
    /\ exitCode = NoExit
    /\ previous = <<>>
    /\ cmdTypeArg = LsFiles
    /\ stdin = <<>>
    /\ scanned = 0
    /\ IdleGiftless
    /\ IdleRelease

giftlessFrame == <<caller, opts, patterns, i, pattern, expanded, previous,
                   cmdTypeArg, showHelp, stdin, scanned, releaseVars>>

\* if showHelp { printHelp(); os.Exit(0) }
GiftlessHelp ==
    /\ pc = "gfMain"
    /\ showHelp
    /\ stdout' = Append(stdout, GiftlessHelpLine)
    /\ exitCode' = 0
    /\ pc' = "exited"
    /\ UNCHANGED <<giftlessFrame, giftlessVars, stderr, invocations, err>>

\* checkCommand(name, args...): exec.Command with Stdout and Stderr nil, run
\* to its end
checkCommand(name, args) ==
    [ name |-> name, args |-> args,
      stdio |-> [Stdin |-> "nil", Stdout |-> "nil", Stderr |-> "nil"] ]

\* deps of checkPrerequisites: the argument of python3 -c ("import "+dep.module)
\* and the package that provides the module
Dependencies ==
    << [module |-> "import azure.storage.blob", pkg |-> "azure-storage-blob"],
       [module |-> "import boto3", pkg |-> "boto3"],
       [module |-> "import cachetools", pkg |-> "cachetools"],
       [module |-> "import cryptography", pkg |-> "cryptography"],
       [module |-> "import figcan", pkg |-> "figcan"],
       [module |-> "import flask", pkg |-> "flask"],
       [module |-> "import flask_classful", pkg |-> "flask-classful"],
       [module |-> "import flask_marshmallow", pkg |-> "flask-marshmallow"],
       [module |-> "import google.cloud.storage", pkg |-> "google-cloud-storage"],
       [module |-> "import importlib_metadata", pkg |-> "importlib-metadata"],
       [module |-> "import jwt", pkg |-> "pyjwt"],
       [module |-> "import dateutil", pkg |-> "python-dateutil"],
       [module |-> "import dotenv", pkg |-> "python-dotenv"],
       [module |-> "import yaml", pkg |-> "pyyaml"],
       [module |-> "import typing_extensions", pkg |-> "typing-extensions"],
       [module |-> "import webargs", pkg |-> "webargs"],
       [module |-> "import werkzeug", pkg |-> "werkzeug"] >>

\* the commands checkPrerequisites runs, in order: python3 --version, one
\* import per dependency, the import of giftless, uwsgi --version
PrerequisiteCommands ==
    <<checkCommand("python3", <<"--version">>)>>
    \o [k \in 1..Len(Dependencies) |-> checkCommand("python3", <<"-c", Dependencies[k].module>>)]
    \o <<checkCommand("python3", <<"-c", "import giftless">>),
          checkCommand("uwsgi", <<"--version">>)>>

\* what each of these commands adds to `missing` when it fails
MissingNames ==
    <<"Python 3 (install from: https://www.python.org/)">>
    \o [k \in 1..Len(Dependencies) |-> Dependencies[k].pkg]
    \o <<"giftless", "uwsgi">>

\* the sets of failing prerequisite commands considered: none, uwsgi, two
\* packages, everything that needs python3, everything
PrerequisiteFailures ==
    {{}, {Len(PrerequisiteCommands)}, {2, Len(PrerequisiteCommands) - 1},
     1..(Len(PrerequisiteCommands) - 1), 1..Len(PrerequisiteCommands)}

RECURSIVE MissingFrom(_, _)
\* the names of the failed commands from the k-th on, in order
MissingFrom(k, failed) ==
    IF k > Len(MissingNames) THEN <<>>
    ELSE (IF k \in failed THEN <<MissingNames[k]>> ELSE <<>>) \o MissingFrom(k + 1, failed)

\* the report of checkPrerequisites on standard error: the heading, one line
\* for each missing dependency, the hint with missingPackages joined by blanks
MissingReport(failed) ==
    <<MissingDependenciesLine>>
    \o [k \in 1..Len(MissingFrom(1, failed)) |->
            [format |-> "  x %s", args |-> <<MissingFrom(1, failed)[k]>>]]
    \o <<[format |-> "\nTo install all missing dependencies, run:", args |-> <<>>],
          [format |-> "  pip install %s", args |-> MissingFrom(2, failed)]>>

\* checkPrerequisites(): every command is run; exit 1 with the report when
\* one failed; otherwise the verified line and main's two announcements
GiftlessPrerequisites ==
    /\ pc = "gfMain"
    /\ ~showHelp
    /\ \E failed \in PrerequisiteFailures :
         /\ invocations' = invocations \o
                [k \in 1..Len(PrerequisiteCommands) |->
                    Invocation(PrerequisiteCommands[k], "exited", IF k \in failed THEN 1 ELSE 0)]
         /\ IF failed # {}
            THEN /\ stderr' = stderr \o MissingReport(failed)
                 /\ exitCode' = 1
                 /\ pc' = "exited"
                 /\ UNCHANGED stdout
            ELSE /\ stdout' = stdout \o <<PrerequisitesVerifiedLine, StartingLine, WorkersLine>>
                 /\ pc' = "gfBuild"
                 /\ UNCHANGED <<stderr, exitCode>>
    /\ UNCHANGED <<giftlessFrame, giftlessVars, err>>

\* cmd := exec.Command(...) with its streams, signal.Notify on sigChan
GiftlessBuild ==
    /\ pc = "gfBuild"
    /\ \E venv \in BOOLEAN :
         invocations' = Append(invocations, Invocation(ServerCommand(venv), "built", NoExit))
    /\ pc' = "gfLaunch"
    /\ UNCHANGED <<giftlessFrame, giftlessVars, stdout, stderr, err, exitCode>>

\* go func() { errChan <- cmd.Run() }()
GiftlessLaunch ==
    /\ pc = "gfLaunch"
    /\ runPc' = "start"
    /\ pc' = "gfSelect"
    /\ UNCHANGED <<giftlessFrame, cmdProcess, sigChan, errChan, arrived, forwarded,
                   stdout, stderr, invocations, err, exitCode>>

\* the environment delivers SIGINT or SIGTERM to the wrapper while sigChan is
\* registered
SignalArrives ==
    /\ pc \in {"gfLaunch", "gfSelect", "gfForward", "gfWait"}
    /\ Len(arrived) < MaxSignals
    /\ \E sig \in NotifiedSignals :
         /\ sigChan' = Deliver(sigChan, sig)
         /\ arrived' = Append(arrived, Arrival(sig))
    /\ UNCHANGED <<giftlessFrame, pc, runPc, cmdProcess, errChan, forwarded,
                   stdout, stderr, invocations, err, exitCode>>

\* cmd.Run: cmd.Start cannot start the child, Run returns the error and the
\* goroutine sends it
RunStartFails ==
    /\ runPc = "start"
    /\ errChan' = Append(errChan, ExecError(ServerChild.name))
    /\ invocations' = [invocations EXCEPT ![Len(invocations)].status = "notstarted"]
    /\ runPc' = "done"
    /\ UNCHANGED <<giftlessFrame, pc, cmdProcess, sigChan, arrived, forwarded,
                   stdout, stderr, err, exitCode>>

\* cmd.Start inside os.StartProcess: the child exists and runs
RunSpawn ==
    /\ runPc = "start"
    /\ invocations' = [invocations EXCEPT ![Len(invocations)].status = "running"]
    /\ runPc' = "spawned"
    /\ UNCHANGED <<giftlessFrame, pc, cmdProcess, sigChan, errChan, arrived, forwarded,
                   stdout, stderr, err, exitCode>>

\* cmd.Start: c.Process = the started process; Run goes on to cmd.Wait
RunStore ==
    /\ runPc = "spawned"
    /\ cmdProcess' = TRUE
    /\ runPc' = "waiting"
    /\ UNCHANGED <<giftlessFrame, pc, sigChan, errChan, arrived, forwarded,
                   stdout, stderr, invocations, err, exitCode>>

\* the server child exits, on its own or because of a signal it was sent
ChildExits ==
    /\ ChildAlive
    /\ \E code \in ChildExitCodes : invocations' = Finish(code)
    /\ UNCHANGED <<giftlessFrame, giftlessVars, pc, stdout, stderr, err, exitCode>>

\* cmd.Wait returns once the child has exited; errChan <- the result of Run
RunReturns ==
    /\ runPc = "waiting"
    /\ ServerChild.status = "exited"
    /\ errChan' = Append(errChan, RunResult(ServerChild.code))
    /\ runPc' = "done"
    /\ UNCHANGED <<giftlessFrame, pc, cmdProcess, sigChan, arrived, forwarded,
                   stdout, stderr, invocations, err, exitCode>>

\* case err := <-errChan: PrintError when err is not nil, "Server stopped"
\* and the return from main otherwise
SelectErr ==
    /\ pc = "gfSelect"
    /\ errChan # <<>>
    /\ err' = Head(errChan)
    /\ errChan' = Tail(errChan)
    /\ IF Head(errChan) # NilError
       THEN /\ PrintError(ServerErrorLine(Head(errChan)))
            /\ UNCHANGED stdout
       ELSE /\ stdout' = Append(stdout, ServerStoppedLine)
            /\ exitCode' = 0
            /\ pc' = "exited"
            /\ UNCHANGED stderr
    /\ UNCHANGED <<giftlessFrame, runPc, cmdProcess, sigChan, arrived, forwarded, invocations>>

\* case sig := <-sigChan: the "Received signal" line
SelectSig ==
    /\ pc = "gfSelect"
    /\ sigChan # <<>>
    /\ stdout' = Append(stdout, ReceivedSignalLine(Head(sigChan)))
    /\ sigChan' = Tail(sigChan)
    /\ pc' = "gfForward"
    /\ UNCHANGED <<giftlessFrame, runPc, cmdProcess, errChan, arrived, forwarded,
                   stderr, invocations, err, exitCode>>

\* the signal taken by the select: the argument of the last "Received signal" line
TakenSignal == stdout[Len(stdout)].args[1]

\* if cmd.Process != nil { cmd.Process.Signal(sig) }
ForwardSignal ==
    /\ pc = "gfForward"
    /\ forwarded' = Forward(TakenSignal)
    /\ pc' = "gfWait"
    /\ UNCHANGED <<giftlessFrame, runPc, cmdProcess, sigChan, errChan, arrived,
                   stdout, stderr, invocations, err, exitCode>>

\* <-errChan; fmt.Println("Server stopped"); main returns
WaitForServer ==
    /\ pc = "gfWait"
    /\ errChan # <<>>
    /\ errChan' = Tail(errChan)
    /\ stdout' = Append(stdout, ServerStoppedLine)
    /\ exitCode' = 0
    /\ pc' = "exited"
    /\ UNCHANGED <<giftlessFrame, runPc, cmdProcess, sigChan, arrived, forwarded,
                   stderr, invocations, err>>

NextGiftless ==
    \/ GiftlessHelp
    \/ GiftlessPrerequisites
    \/ GiftlessBuild
    \/ GiftlessLaunch
    \/ SignalArrives
    \/ RunStartFails
    \/ RunSpawn
    \/ RunStore
    \/ ChildExits
    \/ RunReturns
    \/ SelectErr
    \/ SelectSig
    \/ ForwardSignal
    \/ WaitForServer

SpecGiftless == InitGiftless /\ [][NextGiftless]_vars

----------------------------------------------------------------------------
(* release: the maintainers' tool that validates a version, checks the      *)
(* repository, runs the tests, bumps VERSION, asks for confirmation, then    *)
(* tags and runs goreleaser.  Every command it runs is blocking, so each     *)
(* function of main is one action; `invocations` lists the commands run.     *)

\* fmt.Printf("%s✓%s  %s\n", ...) and its siblings: the kind of mark, the
\* message's format and its arguments
ReleaseLine(kind, format, args) == [kind |-> kind, format |-> format, args |-> args]
info(format, args) == ReleaseLine("info", format, args)
success(format, args) == ReleaseLine("success", format, args)
warning(format, args) == ReleaseLine("warning", format, args)
errorMsg(format, args) == ReleaseLine("error", format, args)
\* fmt.Println / fmt.Print / fmt.Printf without a mark
plain(format, args) == ReleaseLine("plain", format, args)

\* fmt.Println()
BlankLine == plain("", <<>>)
\* the banner of main and the blank line after it
Banner == <<plain("==================================", <<>>),
            plain("  Git LFS Scripts Release", <<>>),
            plain("==================================", <<>>),
            BlankLine>>
\* usage(), to standard error
UsageLine == plain("Release a new version of Git LFS Scripts", <<>>)

\* exec.Command(name, args...) run with CombinedOutput: both streams captured
runCommand(name, args) ==
    [ name |-> name, args |-> args,
      stdio |-> [Stdin |-> "nil", Stdout |-> "buffer", Stderr |-> "buffer"] ]

\* exec.Command(name, args...) with Stdout and Stderr set to the parent's
runCommandVerbose(name, args) ==
    [ name |-> name, args |-> args,
      stdio |-> [Stdin |-> "nil", Stdout |-> "os.Stdout", Stderr |-> "os.Stderr"] ]

Make == <<"m","a","k","e">>
Go == <<"g","o">>
Gh == <<"g","h">>
Goreleaser == <<"g","o","r","e","l","e","a","s","e","r">>

\* a command that has run to its end: err == nil exactly when `ok`
Ran(cmd, ok) == Invocation(cmd, "exited", IF ok THEN 0 ELSE 1)

\* commands run one after the other, each only if the one before succeeded:
\* the first n succeed and the next one, if any, fails
RunUntilFailure(cmds, n) ==
    [k \in 1..(IF n < Len(cmds) THEN n + 1 ELSE Len(cmds)) |-> Ran(cmds[k], k <= n)]

\* the white space strings.TrimSpace removes, as far as a string here can hold it
SpaceChars == {" ", "\t", "\n", "\r", "\f"}

RECURSIVE TrimSpace(_)
\* strings.TrimSpace
TrimSpace(s) ==
    IF s = <<>> THEN s
    ELSE IF Head(s) \in SpaceChars THEN TrimSpace(Tail(s))
    ELSE IF s[Len(s)] \in SpaceChars THEN TrimSpace(SubSeq(s, 1, Len(s) - 1))
    ELSE s

\* strings.TrimPrefix
TrimPrefix(s, prefix) ==
    IF Len(s) >= Len(prefix) /\ SubSeq(s, 1, Len(prefix)) = prefix
    THEN SubSeq(s, Len(prefix) + 1, Len(s))
    ELSE s

\* strings.TrimSuffix
TrimSuffix(s, suffix) ==
    IF Len(s) >= Len(suffix) /\ SubSeq(s, Len(s) - Len(suffix) + 1, Len(s)) = suffix
    THEN SubSeq(s, 1, Len(s) - Len(suffix))
    ELSE s

\* strings.Contains
Contains(s, sub) ==
    \E k \in 0..(Len(s) - Len(sub)) : SubSeq(s, k + 1, k + Len(sub)) = sub

\* reader.ReadString('\n') when the user types `typed` and presses Enter
ReadString(typed) == typed \o <<"\n">>

\* confirmDefault(prompt, defaultYes) on the line ReadString returned
confirmDefault(response, defaultYes) ==
    LET r == ToLower(TrimSpace(response))
    IN  IF r = <<>> THEN defaultYes ELSE r = <<"y">> \/ r = <<"y","e","s">>

\* confirm(prompt) == confirmDefault(prompt, false)
confirm(response) == confirmDefault(response, FALSE)

\* fmt.Printf("%s %s ", prompt, suffix)
PromptLine(prompt, defaultYes) ==
    plain("%s %s ", <<prompt, IF defaultYes THEN <<"(","Y","/","n",")">> ELSE <<"(","y","/","N",")">>>>)

ContinueAnyway == <<"C","o","n","t","i","n","u","e"," ","a","n","y","w","a","y","?">>
ProceedWithRelease == <<"P","r","o","c","e","e","d"," ","w","i","t","h"," ","r","e","l","e","a","s","e","?">>

\* the lines ReadString may return at a prompt: nothing at the end of
\* input, otherwise what was typed and the newline
Responses == {<<>>, ReadString(<<>>), ReadString(<<"y">>), ReadString(<<"Y","e","s"," ">>),
              ReadString(<<"n">>)}

Digits == {"0", "1", "2", "3", "4", "5", "6", "7", "8", "9"}

RECURSIVE SplitDots(_, _, _)
\* the parts of s between its dots
SplitDots(s, cur, acc) ==
    IF s = <<>> THEN Append(acc, cur)
    ELSE IF Head(s) = "." THEN SplitDots(Tail(s), <<>>, Append(acc, cur))
    ELSE SplitDots(Tail(s), Append(cur, Head(s)), acc)

\* [0-9]+
IsNumber(part) == part # <<>> /\ \A k \in 1..Len(part) : part[k] \in Digits

\* fmt.Errorf("invalid version format: %s (expected: X.Y.Z)", version)
InvalidVersionError(v) ==
    [kind |-> "errorString", format |-> "invalid version format: %s (expected: X.Y.Z)",
     args |-> <<v>>]

\* regexp.MatchString(`^[0-9]+\.[0-9]+\.[0-9]+$`, version)
validateVersion(v) ==
    LET parts == SplitDots(v, <<>>, <<>>)
    IN  IF Len(parts) = 3 /\ \A k \in 1..3 : IsNumber(parts[k])
        THEN NilError
        ELSE InvalidVersionError(v)

\* the versions given on the command line or typed at the prompt
VersionInputs == {<<"1",".","2",".","3">>, <<"1",".","2">>, <<"v","1",".","2",".","3">>, <<"1",".","2",".","x">>}

\* the value of a decimal digit
DigitVal(ch) == CHOOSE d \in 0..9 : <<"0", "1", "2", "3", "4", "5", "6", "7", "8", "9">>[d + 1] = ch
\* the character of a decimal digit
DigitChar(d) == <<"0", "1", "2", "3", "4", "5", "6", "7", "8", "9">>[d + 1]

(* A Go int holds 64 bits, more than an integer here can: a scanned number is *)
(* kept as its sign and the digits of its magnitude, without leading zeros.    *)
Int64(neg, mag) == [neg |-> neg, mag |-> mag]
\* the value a variable has when the scan does not reach it
Zero64 == Int64(FALSE, <<"0">>)
\* the magnitudes of math.MaxInt64 and math.MinInt64
MaxInt64Digits == <<"9","2","2","3","3","7","2","0","3","6","8","5","4","7","7","5","8","0","7">>
MinInt64Digits == <<"9","2","2","3","3","7","2","0","3","6","8","5","4","7","7","5","8","0","8">>

RECURSIVE StripZeros(_)
\* the digits without their leading zeros
StripZeros(d) == IF Len(d) > 1 /\ Head(d) = "0" THEN StripZeros(Tail(d)) ELSE d

RECURSIVE LexGreater(_, _)
\* a > b for digit sequences of one length
LexGreater(a, b) ==
    IF a = <<>> THEN FALSE
    ELSE IF Head(a) # Head(b) THEN DigitVal(Head(a)) > DigitVal(Head(b))
    ELSE LexGreater(Tail(a), Tail(b))

\* a > b for magnitudes without leading zeros
MagGreater(a, b) ==
    IF Len(a) # Len(b) THEN Len(a) > Len(b) ELSE LexGreater(a, b)

RECURSIVE IncMag(_)
\* the magnitude plus one
IncMag(d) ==
    IF d = <<>> THEN <<"1">>
    ELSE IF d[Len(d)] = "9" THEN IncMag(SubSeq(d, 1, Len(d) - 1)) \o <<"0">>
    ELSE SubSeq(d, 1, Len(d) - 1) \o <<DigitChar(DigitVal(d[Len(d)]) + 1)>>

RECURSIVE DecMag(_)
\* the magnitude, not zero, minus one
DecMag(d) ==
    IF d[Len(d)] = "0" THEN StripZeros(DecMag(SubSeq(d, 1, Len(d) - 1)) \o <<"9">>)
    ELSE StripZeros(SubSeq(d, 1, Len(d) - 1) \o <<DigitChar(DigitVal(d[Len(d)]) - 1)>>)

\* strconv.ParseInt(tok, 10, 64) fails: a value out of the range of 64 bits
ParseIntFails(neg, tok) ==
    MagGreater(StripZeros(tok), IF neg THEN MinInt64Digits ELSE MaxInt64Digits)

\* strconv.ParseInt(tok, 10, 64) on a token it accepts
ParseInt(neg, tok) ==
    LET mag == StripZeros(tok)
    IN  Int64(neg /\ mag # <<"0">>, mag)

\* n + 1 in 64 bits: math.MaxInt64 + 1 wraps to math.MinInt64
Succ64(n) ==
    IF ~n.neg
    THEN IF n.mag = MaxInt64Digits THEN Int64(TRUE, MinInt64Digits)
         ELSE Int64(FALSE, IncMag(n.mag))
    ELSE LET mag == DecMag(n.mag)
         IN  Int64(mag # <<"0">>, mag)

\* a > b
Greater64(a, b) ==
    IF a.neg # b.neg THEN b.neg
    ELSE IF a.neg THEN MagGreater(b.mag, a.mag)
    ELSE MagGreater(a.mag, b.mag)

\* the %d of fmt.Sprintf
Itoa(n) == (IF n.neg THEN <<"-">> ELSE <<>>) \o n.mag

RECURSIVE SkipBlanks(_)
\* SkipSpace of fmt.Sscanf: blanks are passed over, a newline is not
SkipBlanks(s) ==
    IF s # <<>> /\ Head(s) \in {" ", "\t", "\r", "\f"} THEN SkipBlanks(Tail(s)) ELSE s

RECURSIVE NumberToken(_)
\* the run of decimal digits s starts with: all that %d takes after the sign
NumberToken(s) ==
    IF s = <<>> \/ Head(s) \notin Digits THEN <<>>
    ELSE <<Head(s)>> \o NumberToken(Tail(s))

RECURSIVE ScanFrom(_, _, _)
\* fmt.Sscanf with k verbs %d left, separated by dots.  Each %d passes over
\* blanks, takes one sign and a run of digits; the scan stops at the first
\* text that does not fit and the variables not reached keep their 0
ScanFrom(s, k, acc) ==
    IF k = 0 THEN acc
    ELSE LET t == SkipBlanks(s)
             signed == t # <<>> /\ Head(t) \in {"+", "-"}
             neg == signed /\ Head(t) = "-"
             u == IF signed THEN Tail(t) ELSE t
             tok == NumberToken(u)
             rest == SubSeq(u, Len(tok) + 1, Len(u))
             unreached(n) == [j \in 1..n |-> Zero64]
         IN  IF tok = <<>> \/ ParseIntFails(neg, tok) THEN acc \o unreached(k)
             ELSE IF k > 1 /\ rest # <<>> /\ Head(rest) = "."
             THEN ScanFrom(Tail(rest), k - 1, Append(acc, ParseInt(neg, tok)))
             ELSE Append(acc, ParseInt(neg, tok)) \o unreached(k - 1)

\* fmt.Sscanf(v, "%d.%d.%d", &major, &minor, &patch)
ScanVersion(v) == ScanFrom(v, 3, <<>>)

\* isNewerVersion(v1, v2)
isNewerVersion(v1, v2) ==
    LET a == ScanVersion(v1)
        b == ScanVersion(v2)
    IN  IF a[1] # b[1] THEN Greater64(a[1], b[1])
        ELSE IF a[2] # b[2] THEN Greater64(a[2], b[2])
        ELSE Greater64(a[3], b[3])

\* what `git describe --tags --abbrev=0` may do: fail, or print the latest tag
DescribeOutcomes ==
    {[ok |-> FALSE, output |-> <<>>],
     [ok |-> TRUE, output |-> <<"v","1",".","2",".","2">> \o <<"\n">>]}

\* latestTag := strings.TrimPrefix(output, "v"); with three parts between dots
\* fmt.Sprintf("%d.%d.%d", major, minor, patch+1), otherwise "1.0.0"
IncrementPatch(output) ==
    LET latestTag == TrimPrefix(output, <<"v">>)
        n == ScanVersion(latestTag)
    IN  IF Len(SplitDots(latestTag, <<>>, <<>>)) = 3
        THEN Itoa(n[1]) \o <<".">> \o Itoa(n[2]) \o <<".">> \o Itoa(Succ64(n[3]))
        ELSE <<"1",".","0",".","0">>

\* the file VERSION missing
NoFile == <<"<missing>">>

\* the contents the file VERSION may have when the tool starts
VersionFiles == {<<"1",".","2",".","2">> \o <<"\n">>}

\* getNextVersion() for the outcome of git describe (runCommand trims its
\* output) and the content of VERSION: the latest tag with its patch number
\* incremented, or 1.0.0; the VERSION file's version when it is newer
getNextVersion(described, file) ==
    LET incrementedVersion == IF described.ok THEN IncrementPatch(TrimSpace(described.output))
                              ELSE <<"1",".","0",".","0">>
        versionFileVersion == TrimSpace(file)
    IN  IF file = NoFile THEN incrementedVersion
        ELSE IF validateVersion(versionFileVersion) # NilError THEN incrementedVersion
        ELSE IF isNewerVersion(versionFileVersion, incrementedVersion) THEN versionFileVersion
        ELSE incrementedVersion

\* promptVersion(defaultVersion) on the line ReadString returned
promptVersion(response, defaultVersion) ==
    IF TrimSpace(response) = <<>> THEN defaultVersion ELSE TrimSpace(response)

\* the branches `git rev-parse --abbrev-ref HEAD` may name
Branches == {<<"m","a","i","n">>, <<"d","e","v">>}
\* validBranches := []string{"main", "master"}
validBranches == {<<"m","a","i","n">>, <<"m","a","s","t","e","r">>}

\* tag := fmt.Sprintf("v%s", version)
TagName(v) == <<"v">> \o v
\* tagMessage := fmt.Sprintf("Release %s", tag), with "\n\n[debug]" in debug mode
TagMessage(v, debug) ==
    <<"R","e","l","e","a","s","e"," ">> \o TagName(v) \o (IF debug THEN <<"\n", "\n">> \o <<"[","d","e","b","u","g","]">> ELSE <<>>)

DescribeCommand == runCommand(GitCommand, <<<<"d","e","s","c","r","i","b","e">>, <<"-","-","t","a","g","s">>, <<"-","-","a","b","b","r","e","v","=","0">>>>)
BranchCommand == runCommand(GitCommand, <<<<"r","e","v","-","p","a","r","s","e">>, <<"-","-","a","b","b","r","e","v","-","r","e","f">>, <<"H","E","A","D">>>>)
StatusCommand == runCommand(GitCommand, <<<<"s","t","a","t","u","s">>, <<"-","s">>>>)
AddAllCommand == runCommandVerbose(GitCommand, <<<<"a","d","d">>, <<"-","A">>>>)
CommitCommand(message) == runCommandVerbose(GitCommand, <<<<"c","o","m","m","i","t">>, <<"-","m">>, message>>)
PushCommand == runCommandVerbose(GitCommand, <<<<"p","u","s","h">>, <<"o","r","i","g","i","n">>>>)
TagExistsCommand(v) == runCommand(GitCommand, <<<<"r","e","v","-","p","a","r","s","e">>, TagName(v)>>)
MakeTestCommand == runCommandVerbose(Make, <<<<"t","e","s","t">>>>)
GoTestCommand == runCommandVerbose(Go, <<<<"t","e","s","t">>, <<".","/",".",".",".">>>>)
MakeBuildCommand == runCommandVerbose(Make, <<<<"b","u","i","l","d">>>>)
AddVersionCommand == runCommandVerbose(GitCommand, <<<<"a","d","d">>, <<"V","E","R","S","I","O","N">>>>)
TagCommand(v, debug) ==
    runCommandVerbose(GitCommand, <<<<"t","a","g">>, <<"-","a">>, TagName(v), <<"-","m">>, TagMessage(v, debug)>>)
PushTagCommand(v) == runCommandVerbose(GitCommand, <<<<"p","u","s","h">>, <<"o","r","i","g","i","n">>, TagName(v)>>)
GhTokenCommand == runCommand(Gh, <<<<"a","u","t","h">>, <<"t","o","k","e","n">>>>)
GoreleaserVersionCommand == runCommand(Goreleaser, <<<<"-","-","v","e","r","s","i","o","n">>>>)
InstallGoreleaserCommand ==
    runCommandVerbose(Go, <<<<"i","n","s","t","a","l","l">>, <<"g","i","t","h","u","b",".","c","o","m","/","g","o","r","e","l","e","a","s","e","r","/","g","o","r","e","l","e","a","s","e","r","/","v","2","@","l","a","t","e","s","t">>>>)
GoreleaserCommand(debug) ==
    runCommandVerbose(Goreleaser,
        <<<<"r","e","l","e","a","s","e">>, <<"-","-","c","l","e","a","n">>>> \o (IF debug THEN <<<<"-","-","d","e","b","u","g">>>> ELSE <<>>))
RepoURLCommand == runCommand(GitCommand, <<<<"c","o","n","f","i","g">>, <<"-","-","g","e","t">>, <<"r","e","m","o","t","e",".","o","r","i","g","i","n",".","u","r","l">>>>)

PreReleaseCommit == <<"P","r","e","-","r","e","l","e","a","s","e"," ","c","o","m","m","i","t">>
\* fmt.Sprintf("Bump version to %s", version)
BumpMessage(v) == <<"B","u","m","p"," ","v","e","r","s","i","o","n"," ","t","o"," ">> \o v
\* the lines ReadString may return at checkClean's prompt
CommitMessages == {ReadString(<<>>), ReadString(<<"w","i","p">>)}

\* what `git status -s` may print
StatusOutputs == {<<>>, <<" ","M"," ","R","E","A","D","M","E",".","m","d">> \o <<"\n">>}

\* what `goreleaser --version` may print when it runs
GoreleaserVersions == {<<"g","o","r","e","l","e","a","s","e","r"," ","v","e","r","s","i","o","n"," ","v","2",".","3",".","2">>, <<"g","o","r","e","l","e","a","s","e","r"," ","v","e","r","s","i","o","n"," ","1",".","2","6",".","2">>}

\* goreleaser is of version 2: neither marker missing from the output
IsGoreleaserV2(output) ==
    Contains(output, <<"g","o","r","e","l","e","a","s","e","r"," ","v","e","r","s","i","o","n"," ","v","2">>) \/ Contains(output, <<"g","o","r","e","l","e","a","s","e","r"," ","v","e","r","s","i","o","n"," ","2">>)

\* what `gh auth token` may print
GhTokens == {<<>>, <<"g","h","o","_","1">> \o <<"\n">>}

\* the values GITHUB_TOKEN may have when the tool starts
EnvTokens == {<<>>, <<"g","h","p","_","0">>}

\* what `git config --get remote.origin.url` may print
RepoURLs == {<<>>, <<"g","i","t","@","g","i","t","h","u","b",".","c","o","m",":","m","s","l","i","n","n","/","g","i","t","_","l","f","s","_","s","c","r","i","p","t","s",".","g","i","t">> \o <<"\n">>}

\* getRepoURL() on the trimmed output: the repository path of the URL
RepoPath(output) ==
    TrimPrefix(TrimPrefix(TrimSuffix(output, <<".","g","i","t">>), <<"g","i","t","@","g","i","t","h","u","b",".","c","o","m",":">>),
               <<"h","t","t","p","s",":","/","/","g","i","t","h","u","b",".","c","o","m","/">>)

InitRelease ==
    /\ caller = "release"
    /\ pc = "rlMain"
    /\ showHelp \in BOOLEAN
    /\ opts \in [skipTests : BOOLEAN, debug : BOOLEAN]
    /\ patterns = <<>>
    /\ i = 1
    /\ pattern = <<>>
    /\ expanded = <<>>
    /\ stdout = <<>>
    /\ stderr = <<>>
    /\ invocations = <<>>
    /\ err = NilError
    /\ exitCode = NoExit
    /\ previous = <<>>
    /\ cmdTypeArg = LsFiles
    /\ stdin = <<>>
    /\ scanned = 0
    /\ IdleGiftless
    /\ version = <<>>
    /\ versionFile \in VersionFiles
    /\ githubToken \in EnvTokens

releaseFrame == <<caller, opts, patterns, i, pattern, expanded, err, previous,
                  cmdTypeArg, showHelp, stdin, scanned, giftlessVars>>

\* the function returns to main after printing `lines`
GoOn(lines, next) ==
    /\ stdout' = stdout \o lines
    /\ pc' = next
    /\ UNCHANGED exitCode

\* errorExit(msg) after `lines`: the message with the error mark, os.Exit(1)
errorExit(lines, format, args) ==
    /\ stdout' = stdout \o lines \o <<errorMsg(format, args)>>
    /\ exitCode' = 1
    /\ pc' = "exited"

\* flag.Parse with -h: usage() prints to standard error and exits 0
ReleaseHelp ==
    /\ pc = "rlMain"
    /\ showHelp
    /\ \E described \in DescribeOutcomes :
         invocations' = Append(invocations, Ran(DescribeCommand, described.ok))
    /\ stderr' = Append(stderr, UsageLine)
    /\ exitCode' = 0
    /\ pc' = "exited"
    /\ UNCHANGED <<releaseFrame, releaseVars, stdout>>

\* the banner, showCurrentVersion() and the blank line after it
ReleaseBanner ==
    /\ pc = "rlMain"
    /\ ~showHelp
    /\ \E described \in DescribeOutcomes :
         /\ invocations' = Append(invocations, Ran(DescribeCommand, described.ok))
         /\ GoOn(Banner \o
                 <<info("Most recent version tag: %s",
                        <<IF described.ok THEN TrimSpace(described.output) ELSE <<"n","o","n","e">>>>),
                   info("VERSION file contains: %s",
                        <<IF versionFile = NoFile THEN <<"u","n","k","n","o","w","n">> ELSE TrimSpace(versionFile)>>),
                   BlankLine>>,
                 "rlVersion")
    /\ UNCHANGED <<releaseFrame, releaseVars, stderr>>

\* version = flag.Arg(0) when there is an argument
ReleaseVersionArg ==
    /\ pc = "rlVersion"
    /\ \E arg \in VersionInputs : version' = arg
    /\ pc' = "rlValidate"
    /\ UNCHANGED <<releaseFrame, versionFile, githubToken, stdout, stderr, invocations,
                   exitCode>>

\* version = promptVersion(getNextVersion()) otherwise
ReleaseVersionPrompt ==
    /\ pc = "rlVersion"
    /\ \E described \in DescribeOutcomes,
          response \in {ReadString(typed) : typed \in VersionInputs \cup {<<>>}} :
         LET nextVersion == getNextVersion(described, versionFile)
         IN  \* the tags have not changed since showCurrentVersion asked for them
             /\ described.ok = (invocations[Len(invocations)].code = 0)
             /\ invocations' = Append(invocations, Ran(DescribeCommand, described.ok))
             /\ stdout' = Append(stdout,
                    plain("What version number should this release have (accept the default with Enter) [%s] ",
                          <<nextVersion>>))
             /\ version' = promptVersion(response, nextVersion)
    /\ pc' = "rlValidate"
    /\ UNCHANGED <<releaseFrame, versionFile, githubToken, stderr, exitCode>>

\* if err := validateVersion(version); err != nil { errorExit(err.Error()) }
ReleaseValidate ==
    /\ pc = "rlValidate"
    /\ IF validateVersion(version) # NilError
       THEN errorExit(<<>>, validateVersion(version).format, validateVersion(version).args)
       ELSE GoOn(<<success("Version format is valid: %s", <<version>>)>>, "rlBranch")
    /\ UNCHANGED <<releaseFrame, releaseVars, stderr, invocations>>

\* checkBranch()
ReleaseCheckBranch ==
    /\ pc = "rlBranch"
    /\ \E ok \in BOOLEAN, branch \in Branches, response \in Responses :
         /\ invocations' = Append(invocations, Ran(BranchCommand, ok))
         /\ IF ~ok
            THEN errorExit(<<>>, "Failed to get current branch", <<>>)
            ELSE IF branch \in validBranches
            THEN GoOn(<<success("On branch: %s", <<branch>>)>>, "rlClean")
            ELSE LET asked == <<warning("You are on branch '%s', not main/master", <<branch>>),
                                PromptLine(ContinueAnyway, FALSE)>>
                 IN  IF confirm(response)
                     THEN GoOn(asked \o <<success("On branch: %s", <<branch>>)>>, "rlClean")
                     ELSE errorExit(asked, "Aborted", <<>>)
    /\ UNCHANGED <<releaseFrame, releaseVars, stderr>>

\* the failure messages of checkClean's add, commit and push
CleanFailures == <<"Failed to add changes", "Failed to commit changes", "Failed to push changes">>
\* the progress lines of checkClean before its add, commit and push
CleanProgress == <<info("Adding all changes...", <<>>), info("Committing changes...", <<>>),
                   info("Pushing changes to remote...", <<>>)>>

\* checkClean(): the error of git status is dropped and its trimmed output
\* decides; a dirty working directory is committed and pushed
ReleaseCheckClean ==
    /\ pc = "rlClean"
    /\ \E statusOk \in BOOLEAN, printed \in StatusOutputs :
         LET output == TrimSpace(printed)
         IN  IF output = <<>>
             THEN /\ invocations' = Append(invocations, Ran(StatusCommand, statusOk))
                  /\ GoOn(<<success("Working directory is clean", <<>>)>>, "rlTag")
             ELSE \E typed \in CommitMessages, n \in 0..3 :
                    LET commitMsg == IF TrimSpace(typed) = <<>> THEN PreReleaseCommit
                                     ELSE TrimSpace(typed)
                        cmds == <<AddAllCommand, CommitCommand(commitMsg), PushCommand>>
                        asked == <<warning("Working directory is not clean.", <<>>),
                                   plain("%s", <<output>>),
                                   BlankLine,
                                   plain("Commit message (or press Enter for 'Pre-release commit'): ", <<>>)>>
                        progress == SubSeq(CleanProgress, 1, IF n < 3 THEN n + 1 ELSE 3)
                    IN  /\ invocations' = invocations \o <<Ran(StatusCommand, statusOk)>>
                                            \o RunUntilFailure(cmds, n)
                        /\ IF n < 3
                           THEN errorExit(asked \o progress, CleanFailures[n + 1], <<>>)
                           ELSE GoOn(asked \o progress
                                       \o <<success("Changes committed and pushed", <<>>)>>, "rlTag")
    /\ UNCHANGED <<releaseFrame, releaseVars, stderr>>

\* checkTag(version): the tag must not exist yet
ReleaseCheckTag ==
    /\ pc = "rlTag"
    /\ \E exists \in BOOLEAN :
         /\ invocations' = Append(invocations, Ran(TagExistsCommand(version), exists))
         /\ IF exists
            THEN errorExit(<<>>, "Tag %s already exists", <<TagName(version)>>)
            ELSE GoOn(<<success("Tag %s is available", <<TagName(version)>>)>>, "rlChangelog")
    /\ UNCHANGED <<releaseFrame, releaseVars, stderr>>

\* checkChangelog(version)
ReleaseCheckChangelog ==
    /\ pc = "rlChangelog"
    /\ \E found \in BOOLEAN, mentions \in BOOLEAN, response \in Responses :
         IF ~found
         THEN LET asked == <<warning("CHANGELOG.md not found", <<>>),
                             PromptLine(ContinueAnyway, FALSE)>>
              IN  IF confirm(response)
                  THEN GoOn(asked, "rlTests")
                  ELSE errorExit(asked, "Please create CHANGELOG.md", <<>>)
         ELSE IF ~mentions
         THEN LET asked == <<warning("CHANGELOG.md does not mention version %s", <<version>>),
                             PromptLine(ContinueAnyway, FALSE)>>
              IN  IF confirm(response)
                  THEN GoOn(asked, "rlTests")
                  ELSE errorExit(asked, "Please update CHANGELOG.md before releasing", <<>>)
         ELSE GoOn(<<success("CHANGELOG.md mentions version %s", <<version>>)>>, "rlTests")
    /\ UNCHANGED <<releaseFrame, releaseVars, stderr, invocations>>

\* if !opts.skipTests { runTests() } else { warning("Skipping tests.") }
ReleaseTests ==
    /\ pc = "rlTests"
    /\ IF opts.skipTests
       THEN /\ GoOn(<<warning("Skipping tests.", <<>>)>>, "rlUpdate")
            /\ UNCHANGED invocations
       ELSE \E makeOk \in BOOLEAN, goOk \in BOOLEAN :
              /\ invocations' = invocations \o <<Ran(MakeTestCommand, makeOk)>>
                     \o (IF makeOk THEN <<>> ELSE <<Ran(GoTestCommand, goOk)>>)
              /\ IF makeOk \/ goOk
                 THEN GoOn(<<info("Running tests...", <<>>), success("All tests passed", <<>>)>>,
                           "rlUpdate")
                 ELSE errorExit(<<info("Running tests...", <<>>)>>,
                                "Tests failed. Fix issues before releasing.", <<>>)
    /\ UNCHANGED <<releaseFrame, releaseVars, stderr>>

\* updateVersionFiles(version): VERSION written, the binaries rebuilt, the
\* change committed and pushed
ReleaseUpdateVersionFiles ==
    /\ pc = "rlUpdate"
    /\ LET updating == <<info("Updating VERSION file to %s...", <<version>>)>>
           written == updating \o <<success("VERSION file updated", <<>>),
                                    info("Rebuilding with new version...", <<>>)>>
           rebuilt == written \o <<success("Binaries rebuilt with new version", <<>>)>>
       IN  \/ /\ errorExit(updating, "Failed to write VERSION file", <<>>)
              /\ UNCHANGED <<versionFile, invocations>>
           \/ /\ versionFile' = version \o <<"\n">>
              /\ \/ /\ invocations' = Append(invocations, Ran(MakeBuildCommand, FALSE))
                    /\ errorExit(written, "Build failed", <<>>)
                 \/ \E added \in BOOLEAN, n \in 0..2 :
                      /\ invocations' = invocations
                            \o <<Ran(MakeBuildCommand, TRUE), Ran(AddVersionCommand, added)>>
                            \o RunUntilFailure(<<CommitCommand(BumpMessage(version)), PushCommand>>, n)
                      /\ CASE n = 0 -> errorExit(rebuilt, "Failed to commit VERSION file", <<>>)
                           [] n = 1 -> errorExit(rebuilt, "Failed to push VERSION file", <<>>)
                           [] n = 2 -> GoOn(rebuilt \o <<success("VERSION file committed and pushed", <<>>)>>,
                                            "rlConfirm")
    /\ UNCHANGED <<releaseFrame, version, githubToken, stderr>>

\* warning("Ready to create release v%s"); confirmDefault("Proceed with
\* release?", true), errorExit("Release cancelled") when declined
ReleaseConfirm ==
    /\ pc = "rlConfirm"
    /\ \E response \in Responses :
         LET asked == <<BlankLine, warning("Ready to create release v%s", <<version>>),
                        PromptLine(ProceedWithRelease, TRUE)>>
         IN  IF ~confirmDefault(response, TRUE)
             THEN errorExit(asked, "Release cancelled", <<>>)
             ELSE GoOn(asked, "rlCreateTag")
    /\ UNCHANGED <<releaseFrame, releaseVars, stderr, invocations>>

\* createTag(version, opts.debug): git tag -a, then git push origin <tag>
ReleaseCreateTag ==
    /\ pc = "rlCreateTag"
    /\ \E n \in 0..2 :
         LET debugLines == IF opts.debug THEN <<warning("Debug mode enabled", <<>>)>> ELSE <<>>
             creating == debugLines \o <<info("Creating tag %s...", <<TagName(version)>>)>>
             created == creating \o <<success("Tag %s created", <<TagName(version)>>),
                                      info("Pushing tag to origin...", <<>>)>>
         IN  /\ invocations' = invocations
                   \o RunUntilFailure(<<TagCommand(version, opts.debug), PushTagCommand(version)>>, n)
             /\ CASE n = 0 -> errorExit(creating, "Failed to create tag", <<>>)
                  [] n = 1 -> errorExit(created, "Failed to push tag", <<>>)
                  [] n = 2 -> GoOn(created \o <<success("Tag pushed to origin", <<>>)>>,
                                   "rlGoReleaser")
    /\ UNCHANGED <<releaseFrame, releaseVars, stderr>>

\* runGoReleaser(version, opts.debug): the token from the environment or
\* from gh, goreleaser v2 installed when goreleaser is missing or older, then
\* goreleaser release --clean
ReleaseGoReleaser ==
    /\ pc = "rlGoReleaser"
    /\ \E ghOk \in BOOLEAN, ghPrinted \in GhTokens, versionOk \in BOOLEAN,
          versionPrinted \in GoreleaserVersions, installOk \in BOOLEAN, releaseOk \in BOOLEAN :
         LET tokenSet == githubToken # <<>>
             ghToken == TrimSpace(ghPrinted)
             tokenLines == IF tokenSet
                           THEN <<success("Found GITHUB_TOKEN environment variable", <<>>)>>
                           ELSE <<warning("GITHUB_TOKEN environment variable not set", <<>>),
                                  info("Attempting to use GitHub CLI (gh) for authentication...", <<>>)>>
             tokenRuns == IF tokenSet THEN <<>> ELSE <<Ran(GhTokenCommand, ghOk)>>
             older == versionOk /\ ~IsGoreleaserV2(TrimSpace(versionPrinted))
             needsInstall == ~versionOk \/ older
             checking == tokenLines
                           \o (IF tokenSet THEN <<>> ELSE <<success("Using GitHub CLI token", <<>>)>>)
                           \o <<info("Checking for goreleaser...", <<>>)>>
                           \o (IF older
                               THEN <<warning("Found older version of goreleaser, upgrading to v2...", <<>>)>>
                               ELSE <<>>)
             installing == checking \o (IF needsInstall
                                        THEN <<info("Installing goreleaser v2...", <<>>)>>
                                        ELSE <<>>)
             running == installing \o <<success("goreleaser v2 is available", <<>>),
                                        BlankLine,
                                        info("Running goreleaser to create GitHub release...", <<>>)>>
         IN  IF ~tokenSet /\ (~ghOk \/ ghToken = <<>>)
             THEN /\ versionOk /\ installOk /\ releaseOk
                  /\ invocations' = invocations \o tokenRuns
                  /\ errorExit(tokenLines,
                       "Failed to get GitHub token. Please set GITHUB_TOKEN or run 'gh auth login'", <<>>)
                  /\ UNCHANGED githubToken
             ELSE /\ githubToken' = (IF tokenSet THEN githubToken ELSE ghToken)
                  /\ IF needsInstall /\ ~installOk
                     THEN /\ invocations' = invocations \o tokenRuns
                                \o <<Ran(GoreleaserVersionCommand, versionOk),
                                      Ran(InstallGoreleaserCommand, FALSE)>>
                          /\ errorExit(installing, "Failed to install goreleaser v2", <<>>)
                     ELSE /\ invocations' = invocations \o tokenRuns
                                \o <<Ran(GoreleaserVersionCommand, versionOk)>>
                                \o (IF needsInstall THEN <<Ran(InstallGoreleaserCommand, TRUE)>> ELSE <<>>)
                                \o <<Ran(GoreleaserCommand(opts.debug), releaseOk)>>
                          /\ IF releaseOk
                             THEN GoOn(running \o <<success("GitHub release created with binaries uploaded", <<>>)>>,
                                       "rlFinish")
                             ELSE errorExit(running,
                                    "goreleaser failed. The tag has been pushed but the release was not created.", <<>>)
    /\ UNCHANGED <<releaseFrame, version, versionFile, stderr>>

\* the closing lines of main and its return: the release URL is shown when
\* getRepoURL gives no error and a path that is not empty
ReleaseFinish ==
    /\ pc = "rlFinish"
    /\ \E known \in BOOLEAN, printed \in RepoURLs :
         LET repoURL == IF known THEN RepoPath(TrimSpace(printed)) ELSE <<>>
         IN  /\ invocations' = Append(invocations, Ran(RepoURLCommand, known))
             /\ stdout' = stdout
                    \o <<BlankLine,
                          success("Release v%s completed successfully!", <<version>>),
                          BlankLine>>
                    \o (IF known /\ repoURL # <<>>
                        THEN <<info("View release at: https://github.com/%s/releases/tag/v%s",
                                    <<repoURL, version>>)>>
                        ELSE <<>>)
                    \o <<BlankLine>>
    /\ exitCode' = 0
    /\ pc' = "exited"
    /\ UNCHANGED <<releaseFrame, releaseVars, stderr>>

NextRelease ==
    \/ ReleaseHelp
    \/ ReleaseBanner
    \/ ReleaseVersionArg
    \/ ReleaseVersionPrompt
    \/ ReleaseValidate
    \/ ReleaseCheckBranch
    \/ ReleaseCheckClean
    \/ ReleaseCheckTag
    \/ ReleaseCheckChangelog
    \/ ReleaseTests
    \/ ReleaseUpdateVersionFiles
    \/ ReleaseConfirm
    \/ ReleaseCreateTag
    \/ ReleaseGoReleaser
    \/ ReleaseFinish

SpecRelease == InitRelease /\ [][NextRelease]_vars

----------------------------------------------------------------------------
(* Properties of ExpandPattern *)

\* ExpandPattern has been applied, to `pattern`, and `expanded` holds its result
HasExpanded == expanded # <<>>

Letters == {LowerLetters[k] : k \in DOMAIN LowerLetters}
               \cup {UpperLetters[k] : k \in DOMAIN UpperLetters}
UpperSet == {UpperLetters[k] : k \in DOMAIN UpperLetters}
HasUpper(s) == \E k \in DOMAIN s : s[k] \in UpperSet
NoLetters(s) == \A k \in DOMAIN s : s[k] \notin Letters

IsRecursive(glob) ==
    Len(glob) >= Len(RecursivePrefix) /\ SubSeq(glob, 1, Len(RecursivePrefix)) = RecursivePrefix

Bit(b) == IF b THEN 1 ELSE 0

\* C1: for every token and each of the four combinations of (BothCases,
\* Everywhere), ExpandPattern returns exactly 2^[BothCases] * 2^[Everywhere]
\* globs, that is 1, 2 or 4.
C1_ExpandCount ==
    HasExpanded =>
        /\ Len(expanded) = (2 ^ Bit(opts.BothCases)) * (2 ^ Bit(opts.Everywhere))
        /\ Len(expanded) \in {1, 2, 4}

C1_Witness ==
    /\ caller = "ExpandPattern" /\ pc = "done"
    /\ opts.BothCases /\ opts.Everywhere
    /\ Len(pattern) = MaxTokenLen
    /\ Len(expanded) = 4

\* C2: with BothCases and Everywhere both set the result is exactly
\* [local-lower, local-upper, recursive-lower, recursive-upper], the folds
\* taken over the entire token whatever its casing; and for any flag
\* combination every local glob precedes every recursive glob and, at each
\* scope, the lower-case glob precedes the upper-case glob.
C2_ExpandOrder ==
    HasExpanded =>
        /\ (opts.BothCases /\ opts.Everywhere) =>
              expanded = << LocalPrefix \o ToLower(pattern),
                            LocalPrefix \o ToUpper(pattern),
                            RecursivePrefix \o ToLower(pattern),
                            RecursivePrefix \o ToUpper(pattern) >>
        /\ \A j, k \in DOMAIN expanded :
              (~IsRecursive(expanded[j]) /\ IsRecursive(expanded[k])) => j < k
        /\ opts.BothCases =>
              \A j \in DOMAIN expanded :
                 j % 2 = 1 =>
                    LET prefix == IF IsRecursive(expanded[j]) THEN RecursivePrefix
                                  ELSE LocalPrefix
                    IN  /\ j + 1 \in DOMAIN expanded
                        /\ expanded[j] = prefix \o ToLower(pattern)
                        /\ expanded[j + 1] = prefix \o ToUpper(pattern)

C2_Witness ==
    /\ HasExpanded
    /\ opts.BothCases /\ opts.Everywhere
    /\ HasUpper(pattern) /\ ToUpper(pattern) # pattern
    /\ expanded[3] = RecursivePrefix \o ToLower(pattern)

\* the ordered list [local-lower, local-upper, recursive-lower, recursive-upper]
\* of a token, filtered to the members the flags select
SelectedFolds(token, o) ==
    (IF o.BothCases THEN << LocalPrefix \o ToLower(token), LocalPrefix \o ToUpper(token) >>
                    ELSE << LocalPrefix \o ToLower(token) >>)
    \o (IF o.Everywhere
        THEN IF o.BothCases
             THEN << RecursivePrefix \o ToLower(token), RecursivePrefix \o ToUpper(token) >>
             ELSE << RecursivePrefix \o ToLower(token) >>
        ELSE <<>>)

\* C3 as stated: for every token, upper-case letters included, the result is
\* the flag-selected sub-sequence of the four folded globs, so that with
\* BothCases off the sole variant at each scope is the lower-case fold.
C3_Original ==
    HasExpanded => expanded = SelectedFolds(pattern, opts)

\* C3 amended: with BothCases set the result is the flag-selected sub-sequence
\* of [local-lower, local-upper, recursive-lower, recursive-upper]; with
\* BothCases off the sole variant at each scope is the token as given, its
\* casing unchanged ("*."+t, then "**/*."+t with Everywhere), which is the
\* lower-case fold exactly when the token holds no upper-case letter.
C3_VerbatimWithoutBothCases ==
    HasExpanded =>
        /\ opts.BothCases => expanded = SelectedFolds(pattern, opts)
        /\ ~opts.BothCases =>
              /\ expanded = << LocalPrefix \o pattern >>
                               \o (IF opts.Everywhere THEN << RecursivePrefix \o pattern >>
                                   ELSE <<>>)
              /\ (expanded = SelectedFolds(pattern, opts)) <=> ~HasUpper(pattern)

C3_Witness ==
    /\ HasExpanded
    /\ ~opts.BothCases /\ opts.Everywhere
    /\ HasUpper(pattern)
    /\ expanded[2] = RecursivePrefix \o pattern
    /\ expanded[2] # RecursivePrefix \o ToLower(pattern)

\* C4: ExpandPattern never deduplicates: for a token without alphabetic
\* characters and BothCases set, the lower-case and upper-case globs are the
\* same string and both are emitted at each scope, 2 elements in all, 4 with
\* Everywhere.
C4_NoDedup ==
    (HasExpanded /\ opts.BothCases /\ NoLetters(pattern)) =>
        /\ Len(expanded) = (IF opts.Everywhere THEN 4 ELSE 2)
        /\ expanded[1] = expanded[2]
        /\ expanded[1] = LocalPrefix \o pattern
        /\ opts.Everywhere =>
              /\ expanded[3] = expanded[4]
              /\ expanded[3] = RecursivePrefix \o pattern

C4_Witness ==
    /\ HasExpanded
    /\ opts.BothCases /\ opts.Everywhere
    /\ pattern # <<>> /\ NoLetters(pattern)
    /\ Len(expanded) = 4 /\ expanded[3] = expanded[4]

----------------------------------------------------------------------------
(* Properties of Execute *)

\* lfsfiles.Execute has been called: opts.Command is set just before the call
\* (git-unmigrate runs its commands itself and never calls Execute)
ExecuteCalled ==
    /\ caller \in EntryPoints \cup {"Execute"}
    /\ pc \in {"Execute", "Run", "RunBare", "returned", "exited"}
    /\ opts.Command # <<>>

\* Execute has returned to its caller
ExecuteReturned == ExecuteCalled /\ pc \in {"returned", "exited"}

Git == <<"g","i","t">>

\* the words of each command label after its first word
LabelArguments(command) ==
    CASE command = GitLsFilesLabel -> << <<"l","s","-","f","i","l","e","s">> >>
      [] command = GitLfsLsFilesLabel -> << <<"l","f","s">>, <<"l","s","-","f","i","l","e","s">> >>
      [] command = GitLfsTrackLabel -> << <<"l","f","s">>, <<"t","r","a","c","k">> >>
      [] command = GitLfsUntrackLabel -> << <<"l","f","s">>, <<"u","n","t","r","a","c","k">> >>

\* the globs of a list of 1, 2 or 4, separated by single spaces
SpaceSeparated(globs) ==
    CASE Len(globs) = 1 -> globs[1]
      [] Len(globs) = 2 -> globs[1] \o <<" ">> \o globs[2]
      [] Len(globs) = 4 -> globs[1] \o <<" ">> \o globs[2] \o <<" ">> \o globs[3]
                              \o <<" ">> \o globs[4]

\* C5: in dry-run mode Execute never starts an external command, for any
\* token list (empty, single or multi-token) and any command label, and
\* always returns success.
C5_DryRunNoInvocation ==
    (ExecuteCalled /\ opts.DryRun) =>
        /\ invocations = <<>>
        /\ ExecuteReturned => err = NilError
        /\ pc = "exited" => exitCode = 0

C5_Witness ==
    /\ ExecuteReturned /\ opts.DryRun
    /\ Len(patterns) >= 2
    /\ Len(stdout) = Len(patterns)
    /\ invocations = <<>>

\* C6: in dry-run mode Execute emits exactly one line per token, in the order
\* the tokens were supplied, and the line for token t is exactly
\* "DRY RUN: " + commandLabel + " " + the globs of ExpandPattern(t, opts)
\* joined by single spaces.
C6_DryRunLines ==
    (ExecuteCalled /\ opts.DryRun) =>
        /\ Len(stdout) = i - 1
        /\ ExecuteReturned => Len(stdout) = Len(patterns)
        /\ \A k \in DOMAIN stdout :
              stdout[k] = <<"D","R","Y"," ","R","U","N",":"," ">> \o opts.Command \o <<" ">>
                             \o SpaceSeparated(ExpandPattern(patterns[k], opts))
        /\ caller \in EntryPoints =>
              opts.Command = (CASE caller = "git-ls-files" -> GitLsFilesLabel
                                [] caller = "git-lfs-files" -> GitLfsLsFilesLabel
                                [] caller = "git-lfs-track" -> GitLfsTrackLabel)

C6_Witness ==
    /\ ExecuteReturned /\ opts.DryRun
    /\ opts.BothCases /\ opts.Everywhere
    /\ opts.Command = GitLfsTrackLabel
    /\ Len(patterns) = 2 /\ patterns[1] # patterns[2]
    /\ Len(stdout) = 2
    /\ stdout[1] = <<"D","R","Y"," ","R","U","N",":"," ",
                     "g","i","t"," ","l","f","s"," ","t","r","a","c","k"," ",
                     "*",".","m","p","3"," ","*",".","M","P","3"," ",
                     "*","*","/","*",".","m","p","3"," ","*","*","/","*",".","M","P","3">>

\* the live loop over a non-empty token list
LiveLoop == ExecuteCalled /\ ~opts.DryRun /\ Len(patterns) > 0

Failed(inv) ==
    \/ inv.status = "notstarted"
    \/ inv.status = "exited" /\ inv.code # 0

Succeeded(inv) == inv.status = "exited" /\ inv.code = 0

\* C7: in live mode with a non-empty token list and every invocation
\* succeeding, Execute performs exactly one invocation per token, in token
\* order; the invocation for token t runs the label's first word with the
\* label's remaining words followed by the whole ExpandPattern(t, opts) list,
\* and globs of different tokens are never merged into one invocation.
C7_OneInvocationPerToken ==
    LiveLoop =>
        /\ Len(invocations) <= Len(patterns)
        /\ \A k \in DOMAIN invocations :
              /\ invocations[k].name = Git
              /\ invocations[k].args =
                    LabelArguments(opts.Command) \o ExpandPattern(patterns[k], opts)
        /\ (ExecuteReturned /\ err = NilError) =>
              /\ Len(invocations) = Len(patterns)
              /\ \A k \in DOMAIN invocations : Succeeded(invocations[k])

C7_Witness ==
    /\ LiveLoop /\ ExecuteReturned /\ err = NilError
    /\ opts.BothCases /\ opts.Everywhere
    /\ Len(patterns) = 2 /\ patterns[1] # patterns[2]
    /\ Len(invocations) = 2
    /\ invocations[2].args # invocations[1].args
    /\ Len(invocations[2].args) = 6

\* C8: in live mode the first invocation that fails (non-zero exit or failure
\* to start) ends Execute's loop at once: no invocation is attempted for any
\* later token, Execute returns failure, and the invocations already
\* completed for earlier tokens are not undone.
C8_FirstFailureAborts ==
    /\ [](LiveLoop =>
            \A k \in DOMAIN invocations :
               /\ Failed(invocations[k]) =>
                     /\ k = Len(invocations)
                     /\ ExecuteReturned /\ err # NilError
                     /\ pc = "exited" => exitCode = 1
               /\ k < Len(invocations) => Succeeded(invocations[k]))
    /\ [][ LiveLoop =>
              /\ (\E k \in DOMAIN invocations : Failed(invocations[k])) =>
                    invocations' = invocations /\ err' = err
              /\ \A k \in DOMAIN invocations :
                    /\ k \in DOMAIN invocations'
                    /\ invocations[k].status # "running" => invocations'[k] = invocations[k]
         ]_vars

C8_Witness ==
    /\ LiveLoop /\ pc = "exited" /\ exitCode = 1
    /\ Len(patterns) = 2
    /\ Len(invocations) = 1
    /\ invocations[1].status = "exited" /\ invocations[1].code # 0

\* an error value that names a token
NamesToken(e, token) == "token" \in DOMAIN e /\ e.token = token

\* cmd.Run's error for an invocation that failed
UnderlyingFailure(inv) ==
    IF inv.status = "notstarted" THEN ExecError(inv.name) ELSE ExitError(inv.code)

\* the invocation for the token in `pattern` failed and Execute returned
TokenInvocationFailed ==
    /\ LiveLoop /\ ExecuteReturned
    /\ Failed(invocations[Len(invocations)])

\* C9 as stated: when the invocation for token t fails in Execute's live
\* path, the error returned to the entry point identifies the token t and
\* wraps the underlying command failure.
C9_Original ==
    TokenInvocationFailed =>
        /\ NamesToken(err, pattern)
        /\ err.cause = UnderlyingFailure(invocations[Len(invocations)])

\* what Execute returns instead: the underlying command failure itself
\* (cmd.Run's error), not wrapped and naming no token; the entry point prints
\* it once as "Error: <err>" and exits 1.
C9_ErrorIsUnderlyingFailure ==
    TokenInvocationFailed =>
        /\ pattern = patterns[Len(invocations)]
        /\ err = UnderlyingFailure(invocations[Len(invocations)])
        /\ ~NamesToken(err, pattern)
        /\ pc = "exited" =>
              /\ stderr = << [format |-> "Error: %v", arg |-> err] >>
              /\ exitCode = 1

\* the invocation for the second token MoV fails with exit status 1
C9_Witness ==
    /\ TokenInvocationFailed /\ pc = "exited"
    /\ Len(patterns) = 2 /\ Len(invocations) = 2
    /\ pattern = <<"M","o","V">>
    /\ err = [kind |-> "ExitError", code |-> 1]
    /\ Len(stderr) = 1

\* C10: in live mode with an empty token list and a list command label
\* ("git ls-files" or "git lfs ls-files"), Execute runs the bare underlying
\* command exactly once with no pattern arguments and returns that command's
\* outcome.
C10_BareList ==
    (ExecuteCalled /\ ~opts.DryRun /\ Len(patterns) = 0
       /\ opts.Command \in {GitLsFilesLabel, GitLfsLsFilesLabel}) =>
        /\ Len(invocations) <= 1
        /\ pc = "Execute" <=> invocations = <<>>
        /\ \A k \in DOMAIN invocations :
              /\ invocations[k].name = Git
              /\ invocations[k].args = LabelArguments(opts.Command)
        /\ ExecuteReturned =>
              /\ Len(invocations) = 1
              /\ invocations[1].status # "running"
              /\ err = (IF Succeeded(invocations[1]) THEN NilError
                        ELSE UnderlyingFailure(invocations[1]))
        /\ pc = "exited" => exitCode = (IF Succeeded(invocations[1]) THEN 0 ELSE 1)

C10_Witness ==
    /\ ExecuteReturned /\ ~opts.DryRun /\ Len(patterns) = 0
    /\ opts.Command = GitLfsLsFilesLabel
    /\ Len(invocations) = 1 /\ Succeeded(invocations[1])
    /\ invocations[1].args = << <<"l","f","s">>, <<"l","s","-","f","i","l","e","s">> >>
    /\ err = NilError

----------------------------------------------------------------------------
(* Properties of the entry points *)

IsDryRunLine(line) ==
    Len(line) >= Len(DryRunPrefix) /\ SubSeq(line, 1, Len(DryRunPrefix)) = DryRunPrefix

\* C11 as stated: for git-lfs-track an empty token list is a precondition
\* violation: it is rejected with exit code 1 before Execute is reached, so no
\* invocation is attempted and no DRY RUN line is printed, in dry-run mode as
\* well as in live mode.
C11_Original ==
    (caller = "git-lfs-track" /\ Len(patterns) = 0) =>
        /\ pc \in {"main", "exited"}
        /\ ~ExecuteCalled
        /\ invocations = <<>>
        /\ \A k \in DOMAIN stdout : ~IsDryRunLine(stdout[k])
        /\ pc = "exited" => exitCode = 1

\* C11 amended: for git-lfs-track run without -h an empty token list is
\* rejected with exit code 1 before Execute is reached, so no invocation is
\* attempted and no DRY RUN line is printed, in dry-run mode as well as in
\* live mode; with -h the help request is served first and the same empty
\* list ends with exit code 0, Execute not reached either.
C11_TrackRejectsEmptyUnlessHelp ==
    (caller = "git-lfs-track" /\ Len(patterns) = 0) =>
        /\ pc \in {"main", "exited"}
        /\ ~ExecuteCalled
        /\ invocations = <<>>
        /\ \A k \in DOMAIN stdout : ~IsDryRunLine(stdout[k])
        /\ pc = "exited" => /\ exitCode = (IF showHelp THEN 0 ELSE 1)
                            /\ stderr = <<>>

\* an empty list rejected in dry-run mode, help not requested
C11_Witness ==
    /\ caller = "git-lfs-track" /\ Len(patterns) = 0
    /\ ~showHelp
    /\ opts.DryRun
    /\ pc = "exited" /\ exitCode = 1
    /\ stdout = <<HelpLine>>

----------------------------------------------------------------------------
(* Properties of git-unmigrate *)

\* git-unmigrate has passed its three checks and built its options
UnmigrateStarted == caller = "git-unmigrate" /\ opts.Command = GitLfsUntrackLabel

\* the commands of the workflow proper: all but the repository check's
WorkflowInvocations == Tail(invocations)

\* the dry-run line of git-unmigrate for one token
UntrackAdvisory(token) ==
    <<"D","R","Y"," ","R","U","N",":"," ","g","i","t"," ","l","f","s"," ","u","n","t","r","a","c","k"," ">> \o SpaceSeparated(ExpandPattern(token, opts))

\* C12: a git-unmigrate dry run with n >= 1 tokens prints n lines
\* "DRY RUN: git lfs untrack <globs>", one per token in order, and then
\* exactly the three fixed lines for add --renormalize, commit and push, n + 3
\* lines in all, whereas a dry run of the bare track or untrack command
\* prints exactly n lines; no untrack, add, commit or push command is run.
C12_UnmigrateDryRunTranscript ==
    /\ (UnmigrateStarted /\ opts.DryRun) =>
          /\ Len(patterns) >= 1
          /\ WorkflowInvocations = <<>>
          /\ \A k \in 1..(i - 1) : stdout[k] = UntrackAdvisory(patterns[k])
          /\ pc = "umLoop" => Len(stdout) = i - 1
          /\ pc = "exited" =>
                /\ i = Len(patterns) + 1
                /\ Len(stdout) = Len(patterns) + 3
                /\ stdout[Len(patterns) + 1] = <<"D","R","Y"," ","R","U","N",":"," ","g","i","t"," ","a","d","d"," ","-","-","r","e","n","o","r","m","a","l","i","z","e"," ",".">>
                /\ stdout[Len(patterns) + 2] =
                      <<"D","R","Y"," ","R","U","N",":"," ","g","i","t"," ","c","o","m","m","i","t"," ","-","m"," ","\"","R","e","s","t","o","r","e"," ","p","a","t","t","e","r","n","s"," ","t","o"," ","G","i","t"," ","f","r","o","m"," ","G","i","t"," ","L","F","S","\"">>
                /\ stdout[Len(patterns) + 3] = <<"D","R","Y"," ","R","U","N",":"," ","g","i","t"," ","p","u","s","h">>
                /\ exitCode = 0
    /\ (ExecuteReturned /\ opts.DryRun
          /\ opts.Command \in {GitLfsTrackLabel, GitLfsUntrackLabel}) =>
          /\ Len(stdout) = Len(patterns)
          /\ invocations = <<>>

C12_Witness ==
    /\ UnmigrateStarted /\ opts.DryRun /\ pc = "exited"
    /\ opts.BothCases /\ ~opts.Everywhere
    /\ Len(patterns) = 2 /\ patterns[1] # patterns[2]
    /\ Len(stdout) = 5
    /\ stdout[2] = <<"D","R","Y"," ","R","U","N",":"," ","g","i","t"," ","l","f","s"," ","u","n","t","r","a","c","k"," ","*",".","m","o","v"," ","*",".","M","O","V">>
    /\ stdout[5] = <<"D","R","Y"," ","R","U","N",":"," ","g","i","t"," ","p","u","s","h">>

\* the three advisory lines of a dry run, as the user reads them
AdvisoryLines ==
    << <<"D","R","Y"," ","R","U","N",":"," ","g","i","t"," ","a","d","d"," ","-","-","r","e","n","o","r","m","a","l","i","z","e"," ",".">>,
       <<"D","R","Y"," ","R","U","N",":"," ","g","i","t"," ","c","o","m","m","i","t"," ","-","m"," ","\"","R","e","s","t","o","r","e"," ","p","a","t","t","e","r","n","s"," ","t","o"," ","G","i","t"," ","f","r","o","m"," ","G","i","t"," ","L","F","S","\"">>,
       <<"D","R","Y"," ","R","U","N",":"," ","g","i","t"," ","p","u","s","h">> >>

\* standard output ends with the three advisory lines
EndsWithAdvisoryLines ==
    /\ Len(stdout) >= 3
    /\ SubSeq(stdout, Len(stdout) - 2, Len(stdout)) = AdvisoryLines

\* a git-unmigrate dry run has ended without any of its three checks failing
UnmigrateDryRunEnded ==
    /\ caller = "git-unmigrate" /\ opts.DryRun
    /\ pc = "exited" /\ stderr = <<>>

\* C13 as stated: in a dry run of git-unmigrate the three advisory lines are
\* printed whatever the number of tokens, zero tokens included.
C13_Original ==
    UnmigrateDryRunEnded => EndsWithAdvisoryLines

\* C13 amended: in a dry run of git-unmigrate without -h whose checks pass,
\* the three advisory lines are printed after the per-token lines for every
\* number n >= 1 of tokens, and the run exits 0; with zero tokens the run
\* prints the help text and exits 1 before any check, and no advisory line is
\* printed; with -h the run prints the help text and exits 0 whatever the
\* number of tokens, and no advisory line is printed.
C13_AdvisoryLinesForTokens ==
    UnmigrateDryRunEnded =>
        /\ (~showHelp /\ Len(patterns) >= 1) =>
              /\ EndsWithAdvisoryLines
              /\ Len(stdout) = Len(patterns) + 3
              /\ exitCode = 0
        /\ (showHelp \/ Len(patterns) = 0) =>
              /\ stdout = <<HelpLine>>
              /\ \A k \in DOMAIN stdout : ~IsDryRunLine(stdout[k])
              /\ invocations = <<>>
              /\ exitCode = (IF showHelp THEN 0 ELSE 1)

\* a dry run without tokens and without -h has ended with the help text
C13_Witness ==
    /\ UnmigrateDryRunEnded
    /\ ~showHelp
    /\ Len(patterns) = 0
    /\ stdout = <<HelpLine>>
    /\ exitCode = 1

\* a live run of git-unmigrate past its checks
UnmigrateLive == UnmigrateStarted /\ ~opts.DryRun

\* the argument lists of the workflow's commands, as git receives them
UntrackArguments(token) == << <<"l","f","s">>, <<"u","n","t","r","a","c","k">> >> \o ExpandPattern(token, opts)
AddArguments == << <<"a","d","d">>, <<"-","-","r","e","n","o","r","m","a","l","i","z","e">>, <<".">> >>
CommitArguments ==
    << <<"c","o","m","m","i","t">>, <<"-","m">>, <<"R","e","s","t","o","r","e"," ","p","a","t","t","e","r","n","s"," ","t","o"," ","G","i","t"," ","f","r","o","m"," ","G","i","t"," ","L","F","S">> >>
PushArguments == << <<"p","u","s","h">> >>

\* the k-th command of the workflow has run to completion
Completed(k) == WorkflowInvocations[k].status # "running"

\* C14: in a live git-unmigrate run where every untrack succeeds, the
\* follow-up steps start only after the untrack of the last token has
\* completed, and they run exactly once each in the order
\* git add --renormalize ., git commit, git push.
C14_FollowUpsAfterUntracks ==
    UnmigrateLive =>
        LET W == WorkflowInvocations
            n == Len(patterns)
        IN  /\ Len(W) <= n + 3
            /\ \A k \in DOMAIN W :
                  /\ W[k].name = Git
                  /\ k <= n => W[k].args = UntrackArguments(patterns[k])
                  /\ k > n => \A j \in 1..n : Succeeded(W[j])
                  /\ k = n + 1 => W[k].args = AddArguments
                  /\ k = n + 2 => W[k].args = CommitArguments /\ Succeeded(W[n + 1])
                  /\ k = n + 3 => W[k].args = PushArguments /\ Completed(n + 2)
            /\ (pc = "exited" /\ exitCode = 0) =>
                  /\ Len(W) = n + 3
                  /\ Succeeded(W[n + 3])

C14_Witness ==
    /\ UnmigrateLive /\ pc = "exited" /\ exitCode = 0
    /\ Len(patterns) = 2 /\ patterns[1] # patterns[2]
    /\ Len(WorkflowInvocations) = 5
    /\ \A k \in 1..5 : Succeeded(WorkflowInvocations[k])
    /\ WorkflowInvocations[3].args = AddArguments
    /\ WorkflowInvocations[5].args = PushArguments

\* the line "Unmigration complete!" has been printed
CompletionPrinted ==
    \E k \in DOMAIN stdout : stdout[k] = <<"U","n","m","i","g","r","a","t","i","o","n"," ","c","o","m","p","l","e","t","e","!">>

\* what standard error holds after a fatal failure of a workflow step
FatalReport(format, inv) ==
    << [prefix |-> "Error: ", format |-> format, args |-> <<UnderlyingFailure(inv)>>] >>

\* C15: in a live git-unmigrate run a failure of git add --renormalize . is
\* fatal: commit and push are never run and the exit code is 1; a failure of
\* git push is fatal too: the exit code is 1 and the completion message is
\* not printed.
C15_AddAndPushFailuresFatal ==
    UnmigrateLive =>
        LET W == WorkflowInvocations
            n == Len(patterns)
        IN  /\ (Len(W) >= n + 1 /\ Failed(W[n + 1])) =>
                  /\ Len(W) = n + 1
                  /\ pc = "exited" /\ exitCode = 1
                  /\ stderr = FatalReport("Failed to renormalize: %v", W[n + 1])
                  /\ ~CompletionPrinted
            /\ (Len(W) >= n + 3 /\ Failed(W[n + 3])) =>
                  /\ pc = "exited" /\ exitCode = 1
                  /\ stderr = FatalReport("Failed to push: %v", W[n + 3])
                  /\ ~CompletionPrinted

C15_Witness ==
    /\ UnmigrateLive /\ pc = "exited" /\ exitCode = 1
    /\ Len(patterns) = 2
    /\ Len(WorkflowInvocations) = 3
    /\ WorkflowInvocations[3].args = AddArguments
    /\ WorkflowInvocations[3].status = "exited" /\ WorkflowInvocations[3].code = 1
    /\ Len(stderr) = 1

\* the notice printed for a failed commit
CommitFailureReported ==
    \E k \in DOMAIN stdout : stdout[k] = <<"N","o"," ","c","h","a","n","g","e","s"," ","t","o"," ","c","o","m","m","i","t">>

\* C16: in a live git-unmigrate run a failure of git commit is the only
\* failure that does not abort: it is reported, git push is still attempted
\* exactly once, and the exit code is determined by the push alone; a failure
\* of any other command ends the run with exit code 1.
C16_CommitFailureTolerated ==
    UnmigrateLive =>
        LET W == WorkflowInvocations
            n == Len(patterns)
        IN  /\ (Len(W) >= n + 2 /\ Failed(W[n + 2])) =>
                  /\ CommitFailureReported
                  /\ stderr = <<>> \/ (Len(W) = n + 3 /\ Failed(W[n + 3]))
                  /\ pc \in {"umPush", "umPushRun", "exited"}
                  /\ Len(W) <= n + 3
                  /\ pc = "exited" =>
                        /\ Len(W) = n + 3
                        /\ W[n + 3].args = PushArguments
                        /\ exitCode = (IF Succeeded(W[n + 3]) THEN 0 ELSE 1)
                        /\ CompletionPrinted <=> Succeeded(W[n + 3])
            /\ \A k \in DOMAIN W :
                  (Failed(W[k]) /\ k # n + 2) =>
                      /\ k = Len(W)
                      /\ pc = "exited" /\ exitCode = 1
            /\ CommitFailureReported <=> (Len(W) >= n + 2 /\ Failed(W[n + 2]))

C16_Witness ==
    /\ UnmigrateLive /\ pc = "exited" /\ exitCode = 0
    /\ Len(patterns) = 1
    /\ Len(WorkflowInvocations) = 4
    /\ Failed(WorkflowInvocations[3])
    /\ WorkflowInvocations[3].args = CommitArguments
    /\ Succeeded(WorkflowInvocations[4])
    /\ CommitFailureReported /\ CompletionPrinted

\* C17: in a live git-unmigrate run, when the untrack invocation for a token
\* fails, no untrack is attempted for any later token, none of the follow-up
\* steps runs, the failure reported names that token together with the
\* underlying cause, and the exit code is 1.
C17_UntrackFailureAborts ==
    UnmigrateLive =>
        LET W == WorkflowInvocations
        IN  \A k \in DOMAIN W :
               (k <= Len(patterns) /\ Failed(W[k])) =>
                   /\ k = Len(W)
                   /\ \A j \in 1..(k - 1) : Succeeded(W[j])
                   /\ W[k].args = UntrackArguments(patterns[k])
                   /\ pc = "exited" /\ exitCode = 1
                   /\ stderr = << [prefix |-> "Error: ",
                                   format |-> "Failed to untrack pattern %s: %v",
                                   args |-> <<patterns[k], UnderlyingFailure(W[k])>>] >>
                   /\ ~CompletionPrinted

C17_Witness ==
    /\ UnmigrateLive /\ pc = "exited" /\ exitCode = 1
    /\ Len(patterns) = 2 /\ patterns[1] # patterns[2]
    /\ Len(WorkflowInvocations) = 1
    /\ WorkflowInvocations[1].status = "exited" /\ WorkflowInvocations[1].code = 1
    /\ Len(stderr) = 1 /\ stderr[1].args[1] = patterns[1]

----------------------------------------------------------------------------
(* Properties of every run *)

Running(inv) == inv.status = "running"

\* C18: invocations are strictly sequential: at every moment at most one
\* child command started by Execute or by git-unmigrate is running, and the
\* command for the next token or the next workflow step is started only
\* after the previous one has run to completion and reported its exit status.
C18_Sequential ==
    /\ [](\A k \in DOMAIN invocations :
            /\ Running(invocations[k]) =>
                  /\ k = Len(invocations)
                  /\ pc \in {"Run", "RunBare", "umCheckGitRepo", "umUntrack",
                             "umAddRun", "umCommitRun", "umPushRun"}
            /\ invocations[k].status = "exited" => invocations[k].code \in {0, 1})
    /\ [][ Len(invocations') > Len(invocations) =>
              /\ Len(invocations') = Len(invocations) + 1
              /\ \A k \in DOMAIN invocations :
                    /\ ~Running(invocations[k])
                    /\ invocations'[k] = invocations[k]
         ]_vars

C18_Witness ==
    /\ UnmigrateLive /\ pc = "umCommitRun"
    /\ Len(patterns) = 1
    /\ Len(invocations) = 4
    /\ Running(invocations[4])
    /\ \A k \in 1..3 : invocations[k].status = "exited" /\ invocations[k].code = 0

\* the command a dry-run line names: the line without its "DRY RUN: " prefix
NamedCommand(line) == SubSeq(line, Len(DryRunPrefix) + 1, Len(line))

\* an argument as a command line shows it: quoted when it holds a space
ShellWord(arg) ==
    IF \E j \in DOMAIN arg : arg[j] = " " THEN <<"\"">> \o arg \o <<"\"">> ELSE arg

\* an invocation written as a command line
CommandLine(inv) ==
    Join(<<inv.name>> \o [k \in DOMAIN inv.args |-> ShellWord(inv.args[k])], <<" ">>)

\* the commands of the run that the dry run announces: for git-unmigrate the
\* workflow's, without the repository check
AnnouncedInvocations ==
    IF caller = "git-unmigrate" THEN WorkflowInvocations ELSE invocations

\* a live run with the inputs of an earlier dry run has ended, every one of
\* its invocations having succeeded
LiveAfterDryRun ==
    /\ previous # <<>>
    /\ pc = "exited" /\ exitCode = 0
    /\ \A k \in DOMAIN invocations : Succeeded(invocations[k])

\* the dry run named exactly the live run's commands, in the same order
DryRunMatchesLive ==
    /\ Len(previous[1]) = Len(AnnouncedInvocations)
    /\ \A k \in DOMAIN AnnouncedInvocations :
          /\ IsDryRunLine(previous[1][k])
          /\ NamedCommand(previous[1][k]) = CommandLine(AnnouncedInvocations[k])

\* C19 as stated: for every token list an entry point accepts, the empty
\* list of the two list commands included, and every flag combination, the
\* sequence of commands named by the dry-run lines equals the sequence of
\* commands a live run with the same inputs invokes when every invocation
\* succeeds.
C19_Original ==
    LiveAfterDryRun => DryRunMatchesLive

\* C19 for the token lists with at least one token, and for git-unmigrate:
\* the dry run's lines name the live run's commands one for one
C19_MatchesForTokens ==
    (LiveAfterDryRun /\ Len(patterns) >= 1) => DryRunMatchesLive

\* C19 for the empty list of the two list commands: the dry run printed
\* nothing, the live run invoked the bare command once
C19_EmptyListDiverges ==
    (LiveAfterDryRun /\ Len(patterns) = 0) =>
        /\ caller \in {"git-ls-files", "git-lfs-files"}
        /\ previous[1] = <<>>
        /\ Len(invocations) = 1
        /\ invocations[1].args = LabelArguments(opts.Command)

C19_Witness ==
    /\ LiveAfterDryRun /\ Len(patterns) = 0
    /\ caller = "git-ls-files"
    /\ previous = << <<>> >>
    /\ Len(invocations) = 1
    /\ CommandLine(invocations[1]) = <<"g","i","t"," ","l","s","-","f","i","l","e","s">>

\* one of the four pattern entry points has exited
EntryPointExited ==
    /\ caller \in {"git-ls-files", "git-lfs-files", "git-lfs-track", "git-unmigrate"}
    /\ pc = "exited"

\* the token list is empty where tokens are mandatory
EmptyListRejected ==
    Len(patterns) = 0 /\ caller \in {"git-lfs-track", "git-unmigrate"}

\* a failure was reported to the entry point: Execute returned an error, or,
\* in git-unmigrate, a check or a command handed its error to PrintError
FailureReported ==
    IF caller = "git-unmigrate" THEN stderr # <<>> ELSE err # NilError

\* the invocation is the commit of git-unmigrate, whose failure is passed over
IsCommit(inv) == inv.args = CommitArguments

\* C20 as stated: each pattern entry point (git-ls-files, git-lfs-files,
\* git-lfs-track, git-unmigrate) exits with code 0 exactly when the core
\* reports success and with code 1 on any reported failure, be it a
\* precondition violation or an invocation failure.
C20_Original ==
    EntryPointExited =>
        /\ exitCode \in {0, 1}
        /\ exitCode = 1 <=> (EmptyListRejected \/ FailureReported)
        /\ (\E k \in DOMAIN invocations :
               Failed(invocations[k]) /\ ~IsCommit(invocations[k])) => exitCode = 1
        /\ (FailureReported /\ caller # "git-unmigrate") =>
               /\ stderr = << [format |-> "Error: %v", arg |-> err] >>
               /\ invocations # <<>> /\ Failed(invocations[Len(invocations)])
        /\ exitCode = 0 =>
               /\ stderr = <<>>
               /\ \A k \in DOMAIN invocations : ~Running(invocations[k])

\* the token list is rejected: it is empty where tokens are mandatory and the
\* help was not asked for
EmptyListReported == EmptyListRejected /\ ~showHelp

\* C20 amended: each pattern entry point whose command line was parsed exits
\* with code 0 when -h was given (the help is printed and the core is not
\* called) or when the core reports success, and with code 1 on any reported
\* failure, be it a precondition violation or an invocation failure; a
\* missing token list is a failure only when -h was not given.
C20_ExitCode ==
    EntryPointExited =>
        /\ exitCode \in {0, 1}
        /\ exitCode = 1 <=> (EmptyListReported \/ FailureReported)
        /\ showHelp =>
               /\ exitCode = 0
               /\ stdout = <<HelpLine>>
               /\ invocations = <<>>
               /\ ~ExecuteCalled
        /\ (\E k \in DOMAIN invocations :
               Failed(invocations[k]) /\ ~IsCommit(invocations[k])) => exitCode = 1
        /\ (FailureReported /\ caller # "git-unmigrate") =>
               /\ stderr = << [format |-> "Error: %v", arg |-> err] >>
               /\ invocations # <<>> /\ Failed(invocations[Len(invocations)])
        /\ exitCode = 0 =>
               /\ stderr = <<>>
               /\ \A k \in DOMAIN invocations : ~Running(invocations[k])

\* git-lfs-track -h without tokens has printed the help and exited 0
C20_Witness ==
    /\ EntryPointExited /\ caller = "git-lfs-track"
    /\ showHelp /\ Len(patterns) = 0
    /\ exitCode = 0
    /\ stdout = <<HelpLine>>

----------------------------------------------------------------------------
(* Purity and frame *)

\* Execute or ExpandPattern is at work, or has returned to its caller
InsideCore == pc \in {"Execute", "Run", "RunBare", "returned", "ExpandPattern", "done"}

\* what the run shows of the call of ExpandPattern for the k-th token: the
\* line the dry run printed for it, or the arguments the live run handed to
\* the command it started for it
ShownFor(k) == IF opts.DryRun THEN stdout[k] ELSE invocations[k].args

\* how many tokens the run has shown the expansion of
ShownCount == IF opts.DryRun THEN Len(stdout) ELSE Len(invocations)

----------------------------------------------------------------------------
(* Properties of GetCommandString *)

\* GetCommandString has been called on its own and has returned opts.Command
GetCommandStringReturned == caller = "GetCommandString" /\ pc = "done"

\* C22: GetCommandString maps LsFiles, LfsLsFiles, LfsTrack and LfsUntrack to
\* "git ls-files", "git lfs ls-files", "git lfs track" and "git lfs untrack"
\* respectively, and returns the empty string for any other CommandType.
C22_CommandStrings ==
    GetCommandStringReturned =>
        /\ cmdTypeArg = 0 => opts.Command = <<"g","i","t"," ","l","s","-","f","i","l","e","s">>
        /\ cmdTypeArg = 1 => opts.Command = <<"g","i","t"," ","l","f","s"," ","l","s","-","f","i","l","e","s">>
        /\ cmdTypeArg = 2 => opts.Command = <<"g","i","t"," ","l","f","s"," ","t","r","a","c","k">>
        /\ cmdTypeArg = 3 => opts.Command = <<"g","i","t"," ","l","f","s"," ","u","n","t","r","a","c","k">>
        /\ cmdTypeArg \notin 0..3 => opts.Command = <<>>

C22_Witness ==
    /\ GetCommandStringReturned
    /\ cmdTypeArg = 4
    /\ opts.Command = <<>>

----------------------------------------------------------------------------
(* Properties of the children's standard streams *)

\* all three standard streams of the child are the parent's
PassThrough(inv) ==
    /\ inv.stdio.Stdin = "os.Stdin"
    /\ inv.stdio.Stdout = "os.Stdout"
    /\ inv.stdio.Stderr = "os.Stderr"

\* the commands the claim is about: Execute's, and those of the git-unmigrate
\* workflow (not its repository check)
UnderlyingInvocations ==
    IF caller = "git-unmigrate" /\ invocations # <<>> THEN WorkflowInvocations ELSE invocations

\* C23 as stated: every live invocation of the underlying command, made by
\* Execute for the list, track and untrack entry points or by the untrack
\* pass and the follow-up steps of git-unmigrate, has its standard input,
\* standard output and standard error all connected to the parent's.
C23_Original ==
    \A k \in DOMAIN UnderlyingInvocations : PassThrough(UnderlyingInvocations[k])

\* C23 for Execute alone: each of its invocations has all three streams of
\* the parent
C23_ExecutePassesThrough ==
    caller # "git-unmigrate" => \A k \in DOMAIN invocations : PassThrough(invocations[k])

\* C23 for git-unmigrate: its commands write to the parent's standard output
\* and standard error, but their standard input is left unset
C23_UnmigrateLeavesStdinUnset ==
    caller = "git-unmigrate" =>
        \A k \in DOMAIN UnderlyingInvocations :
           /\ UnderlyingInvocations[k].stdio.Stdout = "os.Stdout"
           /\ UnderlyingInvocations[k].stdio.Stderr = "os.Stderr"
           /\ UnderlyingInvocations[k].stdio.Stdin = "nil"

C23_Witness ==
    /\ UnmigrateLive /\ pc = "umPushRun"
    /\ Len(patterns) = 1
    /\ Len(WorkflowInvocations) = 4
    /\ \A k \in 1..4 : WorkflowInvocations[k].stdio.Stdin = "nil"

----------------------------------------------------------------------------
(* Execute and the empty token list *)

\* Execute is called in live mode with no token and a track or untrack label
LiveEmptyTrackCall ==
    /\ ExecuteCalled /\ caller = "Execute"
    /\ ~opts.DryRun /\ Len(patterns) = 0
    /\ opts.Command \in {GitLfsTrackLabel, GitLfsUntrackLabel}

\* C24: Execute itself does not reject an empty token list: called in live
\* mode with an empty token list and a track or untrack command label it
\* performs zero invocations and returns success.
C24_EmptyTrackIsNoOp ==
    LiveEmptyTrackCall =>
        /\ invocations = <<>>
        /\ stdout = <<>> /\ stderr = <<>>
        /\ pc \in {"Execute", "returned"}
        /\ pc = "returned" => err = NilError

C24_Witness ==
    /\ LiveEmptyTrackCall
    /\ opts.Command = GitLfsUntrackLabel
    /\ pc = "returned" /\ err = NilError
    /\ invocations = <<>>

----------------------------------------------------------------------------
(* The precondition checks of git-unmigrate *)

\* one of the three checks of git-unmigrate returned its error
CheckFailed ==
    /\ caller = "git-unmigrate"
    /\ err \in {NotGitRepoError, LFSNotInstalledError, LFSNotInitializedError}

\* the command of the repository check
IsRepositoryCheck(inv) ==
    inv.args = << <<"r","e","v","-","p","a","r","s","e">>, <<"-","-","g","i","t","-","d","i","r">> >>

\* the invocation is one of the workflow's commands: untrack, add, commit, push
IsWorkflowCommand(inv) ==
    \/ (Len(inv.args) >= 2 /\ SubSeq(inv.args, 1, 2) = << <<"l","f","s">>, <<"u","n","t","r","a","c","k">> >>)
    \/ (inv.args # <<>> /\ inv.args[1] \in {<<"a","d","d">>, <<"c","o","m","m","i","t">>, <<"p","u","s","h">>})

\* the run has done something the user can see, or has ended
ActedOrEnded ==
    \/ pc = "exited"
    \/ stdout # <<>>
    \/ \E k \in DOMAIN invocations : IsWorkflowCommand(invocations[k])

\* the repository check was the first thing the run did
RepositoryCheckedFirst ==
    invocations # <<>> /\ IsRepositoryCheck(invocations[1])

\* C25 as stated: once tokens are present git-unmigrate runs its repository
\* and LFS checks before anything else, in dry-run and live mode alike: if any
\* check fails the process exits 1 having printed no DRY RUN line and having
\* run no untrack, add, commit or push command.
C25_Original ==
    (caller = "git-unmigrate" /\ Len(patterns) >= 1) =>
        /\ ActedOrEnded => RepositoryCheckedFirst
        /\ CheckFailed =>
              /\ pc = "exited" /\ exitCode = 1
              /\ \A k \in DOMAIN stdout : ~IsDryRunLine(stdout[k])
              /\ \A k \in DOMAIN invocations : ~IsWorkflowCommand(invocations[k])

\* C25 amended: once tokens are present and -h is not given, git-unmigrate
\* runs its repository and LFS checks before anything else, in dry-run and
\* live mode alike: if any check fails the process exits 1 having printed no
\* DRY RUN line and having run no untrack, add, commit or push command.  With
\* -h the help is printed and the process exits 0 without any check.
C25_ChecksFirst ==
    (caller = "git-unmigrate" /\ Len(patterns) >= 1) =>
        /\ (~showHelp /\ ActedOrEnded) =>
              /\ RepositoryCheckedFirst
              /\ (stdout # <<>> \/ \E k \in DOMAIN invocations : IsWorkflowCommand(invocations[k])) =>
                    /\ Succeeded(invocations[1])
                    /\ UnmigrateStarted
        /\ CheckFailed =>
              /\ ~showHelp
              /\ pc = "exited" /\ exitCode = 1
              /\ \A k \in DOMAIN stdout : ~IsDryRunLine(stdout[k])
              /\ \A k \in DOMAIN invocations : ~IsWorkflowCommand(invocations[k])
              /\ stderr = << [prefix |-> "Error: ", format |-> "%v", args |-> <<err>>] >>
        /\ (showHelp /\ ActedOrEnded) =>
              /\ pc = "exited" /\ exitCode = 0
              /\ invocations = <<>>
              /\ \A k \in DOMAIN stdout : ~IsDryRunLine(stdout[k])

\* a dry run with two tokens has ended on the failed check of the LFS set-up
C25_Witness ==
    /\ CheckFailed /\ err = LFSNotInitializedError
    /\ ~showHelp
    /\ opts.DryRun /\ Len(patterns) = 2
    /\ pc = "exited" /\ exitCode = 1
    /\ \A k \in DOMAIN stdout : ~IsDryRunLine(stdout[k])
    /\ IsRepositoryCheck(invocations[1]) /\ Succeeded(invocations[1])

----------------------------------------------------------------------------
(* Properties of git-lfs-trace *)

\* git-lfs-trace serving its standard input
Tracing == caller = "git-lfs-trace" /\ ~showHelp

\* the line is JSON text that fills a Request: null, or an object whose
\* "event" is no number and whose "objects" is no number
ParsesAsRequest(line) ==
    \/ line.syntax = "null"
    \/ /\ line.syntax = "object"
       /\ line.event.type # "number"
       /\ line.objects.type # "number"

\* the response lines owed to a sequence of lines, in their order
RECURSIVE Answers(_)
Answers(lines) ==
    IF lines = <<>> THEN <<>>
    ELSE LET first == Head(lines)
         IN  (IF ParsesAsRequest(first)
              THEN <<MarshalResponse(handleRequest(Unmarshal(first).request))>>
              ELSE <<>>) \o Answers(Tail(lines))

\* the lines answered so far: all those read, but the one in hand
LinesAnswered == IF pc = "traceLine" THEN scanned - 1 ELSE scanned

\* every line read has been answered, one response per request, in order;
\* a line is read only when the lines before it are answered
AnswersInOrder ==
    /\ [](Tracing => stdout = Answers(SubSeq(stdin, 1, LinesAnswered)))
    /\ [][ Tracing =>
              /\ scanned' # scanned =>
                    /\ scanned' = scanned + 1
                    /\ stdout' = stdout
                    /\ stdout = Answers(SubSeq(stdin, 1, scanned))
              /\ stdout' # stdout =>
                    /\ Len(stdout') = Len(stdout) + 1
                    /\ SubSeq(stdout', 1, Len(stdout)) = stdout
              /\ (pc = "traceLine" /\ ~ParsesAsRequest(stdin[scanned])) =>
                    (stdout' = stdout /\ pc' = "traceScan")
         ]_vars

\* every line of standard input fits the scanner's buffer
AllLinesFit == \A k \in DOMAIN stdin : stdin[k].fits

\* the lines before the first one that does not fit
LinesBeforeOverlong ==
    IF AllLinesFit THEN Len(stdin)
    ELSE (CHOOSE k \in DOMAIN stdin :
             ~stdin[k].fits /\ \A j \in 1..(k - 1) : stdin[j].fits) - 1

\* C26 as stated: for any sequence of input lines, each line that parses as
\* a request produces exactly one response line on stdout before the next
\* line is read, in the order of the requests; a line that fails to parse
\* produces no response and does not stop processing; and the loop keeps
\* serving requests until the end of input, even after a "terminate" event.
C26_Original ==
    /\ AnswersInOrder
    /\ []((Tracing /\ pc = "exited") => (scanned = Len(stdin) /\ exitCode = 0))

\* C26 amended: the same one-to-one, in-order answering, but the loop serves
\* the input only up to the first line longer than the scanner's buffer: at
\* such a line it stops, reports "Error reading input" and exits 1, leaving
\* the later lines unread; when every line fits, it serves all of them, a
\* "terminate" event included, and exits 0.
C26_AnswersUntilOverlongLine ==
    /\ AnswersInOrder
    /\ []((Tracing /\ pc = "exited") =>
            /\ scanned = LinesBeforeOverlong
            /\ stdout = Answers(SubSeq(stdin, 1, LinesBeforeOverlong))
            /\ exitCode = (IF AllLinesFit THEN 0 ELSE 1)
            /\ AllLinesFit => stderr = <<>> \/ stderr[Len(stderr)].header = "== Response =="
            /\ ~AllLinesFit => stderr[Len(stderr)].format = "Error reading input: %v")

C26_Witness ==
    /\ Tracing /\ pc = "exited" /\ exitCode = 0
    /\ Len(stdin) = 2
    /\ stdin[1].event = JString("terminate")
    /\ stdin[2].event = JString("upload") /\ stdin[2].objects = ObjectArray(<<ObjectA>>)
    /\ Len(stdout) = 2
    /\ stdout[1].event = "terminate" /\ stdout[2].event = "upload"

\* a request has been handled: the line read last, and the response printed last
RequestHandled ==
    /\ Tracing /\ pc = "traceScan" /\ scanned >= 1
    /\ ParsesAsRequest(stdin[scanned])

LastLine == stdin[scanned]
LastResponse == stdout[Len(stdout)]

\* the event and the objects of the request a line carries
EventOf(line) == IF line.syntax = "object" THEN line.event.str ELSE ""
ObjectsOf(line) == IF line.syntax = "object" THEN line.objects.items ELSE <<>>

\* the response reports success, and nothing else
ReportsSuccess(response) == response.success /\ response.error = JAbsent

\* the response reports the failure `message`, and carries no object
ReportsFailure(response, message) ==
    /\ ~response.success
    /\ response.error = JString(message)
    /\ response.objects = NoObjects

\* event, success and error of the response are as the claim says
AnswerMatchesEvent ==
    LET e == EventOf(LastLine)
        n == Len(ObjectsOf(LastLine))
    IN  /\ LastResponse.event = e
        /\ e \in {"init", "terminate"} =>
              ReportsSuccess(LastResponse) /\ LastResponse.objects = NoObjects
        /\ (e \in {"upload", "download"} /\ n = 0) =>
              ReportsFailure(LastResponse, "No object specified")
        /\ (e \in {"upload", "download"} /\ n >= 1) =>
              /\ ReportsSuccess(LastResponse)
              /\ LastResponse.objects.type = "array"
              /\ Len(LastResponse.objects.items) = 1
        /\ e \notin {"init", "terminate", "upload", "download"} =>
              ReportsFailure(LastResponse, "Unsupported event")

\* a successful transfer is being answered
TransferAnswered ==
    /\ RequestHandled
    /\ EventOf(LastLine) \in {"upload", "download"}
    /\ Len(ObjectsOf(LastLine)) >= 1

\* C27 as stated: for every request handled by git-lfs-trace the response's
\* event equals the request's event; the response reports success exactly
\* when the event is "init" or "terminate", or it is "upload" or "download"
\* and the request carries at least one object; an upload or download
\* without objects fails with "No object specified", any other event fails
\* with "Unsupported event"; and a successful upload or download response
\* contains exactly one object, carrying the oid of the request's first
\* object.
C27_Original ==
    RequestHandled =>
        /\ AnswerMatchesEvent
        /\ TransferAnswered =>
              /\ ObjectsOf(LastLine)[1].oid.type = "string"
              /\ LastResponse.objects.items[1].oid = ObjectsOf(LastLine)[1].oid.str

\* C27 without its last clause, which holds; and the oid of the response is
\* the first object's oid when that is a string, the empty string when it is
\* a number or is missing
C27_OidWhenString ==
    RequestHandled =>
        /\ AnswerMatchesEvent
        /\ TransferAnswered =>
              LastResponse.objects.items[1].oid =
                 (IF ObjectsOf(LastLine)[1].oid.type = "string"
                  THEN ObjectsOf(LastLine)[1].oid.str ELSE "")

C27_Witness ==
    /\ TransferAnswered
    /\ EventOf(LastLine) = "upload"
    /\ ObjectsOf(LastLine) = <<ObjectNumericOid>>
    /\ LastResponse.success
    /\ LastResponse.objects.items[1].oid = ""

----------------------------------------------------------------------------
(* Properties of git-giftless *)

Serving == caller = "git-giftless"

\* the step that acts on the signal the select took
ForwardStep == Serving /\ pc = "gfForward" /\ pc' = "gfWait"

\* a "Received signal" line has been printed: the select took a signal
SignalTaken ==
    \E k \in 1..Len(stdout) : stdout[k] \in {ReceivedSignalLine(sig) : sig \in NotifiedSignals}

ServerStoppedPrinted == \E k \in 1..Len(stdout) : stdout[k] = ServerStoppedLine

\* the wrapper has printed "Server stopped" or left main after the launch
WrapperFinished ==
    Serving /\ (ServerStoppedPrinted \/ (pc = "exited" /\ runPc # "idle"))

\* the child exited with an error and the wrapper ended without taking a signal
ChildFailedUnsignalled ==
    /\ Serving /\ pc = "exited" /\ runPc = "done"
    /\ ~SignalTaken
    /\ ServerChild.status = "exited" /\ ServerChild.code # 0

\* the wrapper never finishes before the child's run has returned, and a child
\* that failed with no signal taken makes the wrapper exit 1
C28_WaitsAndReports ==
    /\ WrapperFinished => runPc = "done"
    /\ ChildFailedUnsignalled => exitCode = 1

\* C28 as stated: a signal taken while the server child is running is sent on
\* to the child, the wrapper neither prints "Server stopped" nor exits before
\* the child's run has returned, and a child that exits on its own with an
\* error, no signal taken, makes the wrapper exit 1
C28_Original ==
    /\ []C28_WaitsAndReports
    /\ [][ForwardStep /\ ChildAlive => forwarded' = Append(forwarded, TakenSignal)]_vars

\* what the code guarantees: the signal is sent on once cmd.Process has been
\* stored; the rest of C28 holds as stated
C28_ForwardsOnceStored ==
    /\ []C28_WaitsAndReports
    /\ [][ForwardStep /\ ChildAlive /\ cmdProcess
            => forwarded' = Append(forwarded, TakenSignal)]_vars

\* the wrapper handled a signal while the child was running and sent nothing
C28_Witness ==
    /\ Serving /\ pc = "gfWait"
    /\ ChildAlive /\ ~cmdProcess
    /\ forwarded = <<>>

RECURSIVE DueSignals(_)
\* the signals of `arrivals` that came after the launch of the server goroutine
\* and before the child's exit, in order
DueSignals(arrivals) ==
    IF arrivals = <<>> THEN <<>>
    ELSE LET a == Head(arrivals)
         IN  (IF ~a.early /\ ~a.childExited THEN <<a.sig>> ELSE <<>>)
             \o DueSignals(Tail(arrivals))

\* the wrapper has left main after launching the server
WrapperExited == Serving /\ pc = "exited" /\ runPc # "idle"

\* C29 as stated: by the time the wrapper exits, every SIGINT or SIGTERM that
\* reached it between the launch of the server goroutine and the child's exit
\* has been sent to the child
C29_Original == WrapperExited => forwarded = DueSignals(arrived)

\* what the code guarantees: at most one signal is sent to the child, and it
\* is the first one that reached the wrapper
C29_AtMostFirstForwarded ==
    Serving => \/ forwarded = <<>>
               \/ arrived # <<>> /\ forwarded = <<arrived[1].sig>>

\* two signals reached the wrapper while the child was running with
\* cmd.Process stored; the first was sent on, the second sits in sigChan while
\* the wrapper waits for the child
C29_Witness ==
    /\ Serving /\ pc = "gfWait"
    /\ ChildAlive /\ cmdProcess
    /\ Len(DueSignals(arrived)) = 2
    /\ Len(forwarded) = 1
    /\ sigChan # <<>>

----------------------------------------------------------------------------
(* Properties of the release tool *)

Releasing == caller = "release"

\* the run ended with errorExit("Release cancelled")
Declined ==
    /\ Releasing /\ pc = "exited"
    /\ stdout # <<>>
    /\ stdout[Len(stdout)] = errorMsg("Release cancelled", <<>>)

\* the first argument of a command that was run, when it is git
GitVerb(inv) == IF inv.name = GitCommand /\ inv.args # <<>> THEN inv.args[1] ELSE <<>>

IsTag(inv) == GitVerb(inv) = <<"t","a","g">>
IsPush(inv) == GitVerb(inv) = <<"p","u","s","h">>
IsReleaseCommit(inv) == GitVerb(inv) = <<"c","o","m","m","i","t">>

\* some command of this run satisfying `Is` was run, or was run with success
TagRun == \E k \in 1..Len(invocations) : IsTag(invocations[k])
CommittedOrPushed ==
    \E k \in 1..Len(invocations) :
        /\ IsReleaseCommit(invocations[k]) \/ IsPush(invocations[k])
        /\ invocations[k].code = 0

\* where line `l` first appears on standard output, 0 when it does not
Position(l) ==
    IF \E k \in 1..Len(stdout) : stdout[k] = l
    THEN CHOOSE k \in 1..Len(stdout) : stdout[k] = l /\ \A j \in 1..(k - 1) : stdout[j] # l
    ELSE 0

Max2(a, b) == IF a < b THEN b ELSE a

\* the lines that report each stage as passed, in the order of the stages
ValidatedAt == Position(success("Version format is valid: %s", <<version>>))
BranchAt == Max2(Position(success("On branch: %s", <<<<"m","a","i","n">>>>)),
                 Position(success("On branch: %s", <<<<"d","e","v">>>>)))
CleanAt == Max2(Position(success("Working directory is clean", <<>>)),
                Position(success("Changes committed and pushed", <<>>)))
TagFreeAt == Position(success("Tag %s is available", <<TagName(version)>>))
TestsAt == IF opts.skipTests THEN Position(warning("Skipping tests.", <<>>))
           ELSE Position(success("All tests passed", <<>>))
ConfirmAt == Position(PromptLine(ProceedWithRelease, TRUE))
CreatingTagAt == Position(info("Creating tag %s...", <<TagName(version)>>))

\* a tag command is run only after validation, the checks, the tests (or
\* their skipping) and the confirmation, in that order, and never in a run
\* that was declined
TagOnlyAfterEverything ==
    Releasing /\ TagRun =>
        /\ validateVersion(version) = NilError
        /\ 0 < ValidatedAt /\ ValidatedAt < BranchAt /\ BranchAt < CleanAt
        /\ CleanAt < TagFreeAt /\ TagFreeAt < TestsAt /\ TestsAt < ConfirmAt
        /\ ConfirmAt < CreatingTagAt
        /\ ~Declined

\* C30 as stated: a declined confirmation ends the run with exit 1, no tag
\* created and nothing committed or pushed; a tag is created and pushed only
\* after validation, the checks, the tests unless skipped, and the confirmation
C30_Original ==
    /\ Declined => exitCode = 1 /\ ~TagRun /\ ~CommittedOrPushed
    /\ TagOnlyAfterEverything

\* what the code guarantees: a declined confirmation ends the run with exit 1
\* and no tag, after the version bump has been committed and pushed
C30_DeclinedAfterBump ==
    /\ Declined => /\ exitCode = 1 /\ ~TagRun
                   /\ \E k \in 1..(Len(invocations) - 1) :
                        /\ invocations[k] = Ran(CommitCommand(BumpMessage(version)), TRUE)
                        /\ invocations[k + 1] = Ran(PushCommand, TRUE)
                   /\ versionFile = version \o <<"\n">>
    /\ TagOnlyAfterEverything

\* the user declined on a clean working directory: the run has written
\* VERSION, committed the bump and pushed it
C30_Witness ==
    /\ Declined
    /\ CleanAt = Position(success("Working directory is clean", <<>>))
    /\ CommittedOrPushed
    /\ versionFile = version \o <<"\n">>

====
